---- MODULE Spec2Model ----
(***************************************************************************)
(* The mpz binding of mpir-rs (src/src/mpz.rs, src/src/ctype.rs).          *)
(*                                                                         *)
(* The crate declares the MPIR integer routines as `extern "C"` functions  *)
(* and documents each of them.  The model has a small set of mpz_t         *)
(* variables (regs), each an mpz_struct, and one action per declared       *)
(* routine.  Every action passes exactly what the declaration passes: a    *)
(* parameter declared mpz_ptr / mpz_srcptr passes the address of an        *)
(* mpz_struct, a parameter declared c_ulong passes a machine word.  The    *)
(* linked routine then consumes that argument the way its documentation    *)
(* says it does.  Where the declared type and the routine disagree, the    *)
(* routine still reads what it expects: a word handed to a routine that    *)
(* takes an mpz_t is read as an address (ReadMpzAt), an address handed to  *)
(* a routine that takes a word is read as that number.                     *)
(***************************************************************************)
EXTENDS Integers, Sequences, FiniteSets, TLC

VARIABLES regs, last, fuel, str, ar, own

vars == <<regs, last, fuel, str, ar, own>>

\* ------------------------------------------------------------------------
\* Bounds of the model

\* largest magnitude an operation of Spec may leave in a variable
MaxVal == 7
\* width of c_ulong / c_long, scaled down
WordBits == 4
\* width of one limb (mp_limb_t), scaled down
LimbBits == 2
\* longest text handed to the parser in SpecStr
MaxLen == 3
\* largest magnitude converted to text in SpecStr
MaxStrVal == 40
\* number of calls in one behaviour of Spec
MaxCalls == 3
\* number of calls in one behaviour of SpecOwn
MaxOwnCalls == 6
\* most limbs a routine allocates beyond those its result takes
MaxSlack == 1
\* largest magnitude found by a read of memory that holds no variable
MaxGarbage == 9

\* ------------------------------------------------------------------------
\* Integers

Abs(a) == IF a < 0 THEN -a ELSE a

Sgn(a) == IF a < 0 THEN -1 ELSE IF a > 0 THEN 1 ELSE 0

Max(a, b) == IF a >= b THEN a ELSE b

RECURSIVE Pow(_, _)
Pow(b, e) == IF e = 0 THEN 1 ELSE b * Pow(b, e - 1)

WordMod == Pow(2, WordBits)

LimbMod == Pow(2, LimbBits)

\* the values of c_ulong
Ulong == 0 .. (WordMod - 1)

\* a c_ulong bit pattern read by a routine whose parameter is a signed long
AsSigned(w) == IF w >= WordMod \div 2 THEN w - WordMod ELSE w

Values == (-MaxVal) .. MaxVal

\* ------------------------------------------------------------------------
\* mpz_struct: _mp_alloc limbs allocated, _mp_size = sign * number of limbs
\* in use, _mp_d the limbs in use, least significant first.  `live` is
\* whether the variable has been initialised and not yet cleared.

Regs == {"x", "y"}

\* the address of each variable, as a pointer-sized word
AddrOf == [r \in Regs |-> IF r = "x" THEN 4 ELSE 8]

Uninit == [live |-> FALSE, alloc |-> 0, size |-> 0, d |-> <<>>]

RECURSIVE Limbs(_)
Limbs(m) == IF m = 0 THEN <<>> ELSE <<m % LimbMod>> \o Limbs(m \div LimbMod)

RECURSIVE Magnitude(_)
Magnitude(d) == IF d = <<>> THEN 0 ELSE Head(d) + LimbMod * Magnitude(Tail(d))

Val(z) == Sgn(z.size) * Magnitude(z.d)

\* storing a value keeps the space unless more limbs are needed: the least
\* space the variable has afterwards
Store(z, v) ==
  LET d == Limbs(Abs(v))
  IN [live |-> TRUE, alloc |-> Max(z.alloc, Len(d)), size |-> Sgn(v) * Len(d), d |-> d]

\* storing a machine word: room for one limb is made before the value is
\* looked at
StoreWord(z, v) == [Store(z, v) EXCEPT !.alloc = Max(@, 1)]

\* the limbs the value v takes
LimbsOf(v) == Len(Limbs(Abs(v)))

\* The space of a variable grows automatically.  A routine that stores a
\* result asks for the limbs the result may need before it has computed it,
\* and it counts them from the limbs of its operands: n limbs.  That may be
\* more than the result takes.  The space of a destination afterwards is
\* what it was, or anything up to MaxSlack limbs more than the larger of the
\* limbs in use and n.
Room(z, n) == z.alloc .. Max(z.alloc, Max(Len(z.d), n) + MaxSlack)

\* the contents the destination z may have when a routine that asked for n
\* limbs has stored the value v in it
Stored(z, v, n) == {[Store(z, v) EXCEPT !.alloc = a] : a \in Room(Store(z, v), n)}

\* the register files R may become when the routine has stored into the
\* variables W, having asked for n limbs
Grow(R, W, n) ==
  LET D == {r \in Regs : r \in W /\ R[r].live}
  IN {[r \in Regs |-> IF r \in D THEN [R[r] EXCEPT !.alloc = a[r]] ELSE R[r]] :
        a \in {f \in [D -> UNION {Room(R[r], n) : r \in D}] :
                \A r \in D : f[r] \in Room(R[r], n)}}

\* ------------------------------------------------------------------------
\* The record of the last call: the routine, how it ended, its destinations
\* and the values its operands had when it was called.

Statuses == {"ok", "ParseError", "DivisionByZero", "Fault"}

NoCall ==
  [op |-> "none", status |-> "ok", rop |-> "none", rrem |-> "none",
   nv |-> 0, dv |-> 0, cv |-> 0, ret |-> 0, txt |-> <<>>, base |-> 0]

Call(op, status, rop, rrem, nv, dv, cv, ret) ==
  [op |-> op, status |-> status, rop |-> rop, rrem |-> rrem,
   nv |-> nv, dv |-> dv, cv |-> cv, ret |-> ret, txt |-> <<>>, base |-> 0]

Live(r) == regs[r].live

V(r) == Val(regs[r])

\* every call uses up one of the calls the behaviour may make
Spend == fuel > 0 /\ fuel' = fuel - 1

\* ------------------------------------------------------------------------
\* Initialisation and assignment

mpz_init(x) ==
  /\ Spend
  /\ ~Live(x)
  /\ regs' = [regs EXCEPT ![x] = [live |-> TRUE, alloc |-> 0, size |-> 0, d |-> <<>>]]
  /\ last' = Call("mpz_init", "ok", x, "none", 0, 0, 0, 0)
  /\ UNCHANGED <<str, ar, own>>

mpz_clear(x) ==
  /\ Spend
  /\ Live(x)
  /\ regs' = [regs EXCEPT ![x] = Uninit]
  /\ last' = Call("mpz_clear", "ok", x, "none", 0, 0, 0, 0)
  /\ UNCHANGED <<str, ar, own>>

\* declared with op: c_ulong; the routine takes a signed long
mpz_set_si(rop, op) ==
  /\ Spend
  /\ Live(rop)
  /\ AsSigned(op) \in Values
  /\ regs' = [regs EXCEPT ![rop] = StoreWord(@, AsSigned(op))]
  /\ last' = Call("mpz_set_si", "ok", rop, "none", 0, 0, 0, 0)
  /\ UNCHANGED <<str, ar, own>>

\* ------------------------------------------------------------------------
\* Division (src/src/mpz.rs, "Division Functions").  The quotient and the
\* remainder are formed on the magnitudes and the signs applied afterwards;
\* floor and ceiling adjust the truncated pair by one step.

TDivQ(n, d) == Sgn(n) * Sgn(d) * (Abs(n) \div Abs(d))

\* TDivR with the sign of the divisor
TDivR_DivisorSign(n, d) == Sgn(d) * (Abs(n) % Abs(d))

TDivR(n, d) == Sgn(n) * (Abs(n) % Abs(d))

\* FDivQ without the step down: the truncated quotient
FDivQ_Truncated(n, d) == Sgn(n) * Sgn(d) * (Abs(n) \div Abs(d))

FDivQ(n, d) ==
  IF TDivR(n, d) # 0 /\ Sgn(n) # Sgn(d) THEN TDivQ(n, d) - 1 ELSE TDivQ(n, d)

FDivR(n, d) ==
  IF TDivR(n, d) # 0 /\ Sgn(n) # Sgn(d) THEN TDivR(n, d) + d ELSE TDivR(n, d)

CDivQ(n, d) ==
  IF TDivR(n, d) # 0 /\ Sgn(n) = Sgn(d) THEN TDivQ(n, d) + 1 ELSE TDivQ(n, d)

CDivR(n, d) ==
  IF TDivR(n, d) # 0 /\ Sgn(n) = Sgn(d) THEN TDivR(n, d) - d ELSE TDivR(n, d)

\* Mod as the floor remainder by d itself
Mod_DivisorSign(n, d) ==
  IF TDivR(n, d) # 0 /\ Sgn(n) # Sgn(d) THEN TDivR(n, d) + d ELSE TDivR(n, d)

\* the sign of the divisor is ignored; the result is never negative
Mod(n, d) == IF TDivR(n, d) < 0 THEN TDivR(n, d) + Abs(d) ELSE TDivR(n, d)

\* Divides with nothing divisible by zero
Divides_NeverByZero(d, n) == d # 0 /\ Abs(n) % Abs(d) = 0

Divides(d, n) == IF d = 0 THEN n = 0 ELSE Abs(n) % Abs(d) = 0

Congruent(n, c, d) == Divides(d, n - c)

\* The outcomes of a routine reading an mpz_t operand at the address w.  An
\* initialised variable at w is read as it is.  Anything else is a read of
\* memory that holds no initialised mpz_struct: the routine faults, or goes
\* on with whatever it finds there.
\* What such a read finds is not determined by the call: any number, the
\* ones beyond the values the variables hold included.
Garbage == (-MaxGarbage) .. MaxGarbage

ReadMpzAt(w) ==
  IF \E r \in Regs : AddrOf[r] = w /\ Live(r)
  THEN {[fault |-> FALSE, v |-> V(r)] : r \in {q \in Regs : AddrOf[q] = w}}
  ELSE {[fault |-> TRUE, v |-> 0]} \cup {[fault |-> FALSE, v |-> g] : g \in Garbage}

\* the words passed as a c_ulong divisor
DivWords == {0, 1, 2, 3} \cup {AddrOf[r] : r \in Regs}

\* Divide with the destinations cleared before the zero divisor is noticed
Divide_StoreFirst(op, rop, rrem, nv, dv, q, r, ret) ==
  IF dv = 0
  THEN /\ regs' \in Grow([x \in Regs |->
                     IF x \in {rop, rrem} THEN Store(regs[x], 0) ELSE regs[x]], {rop, rrem},
                  LimbsOf(nv))
       /\ last' = Call(op, "DivisionByZero", rop, rrem, nv, dv, 0, 0)
  ELSE /\ regs' \in Grow([x \in Regs |->
                     IF x = rop THEN Store(regs[x], q)
                     ELSE IF x = rrem THEN Store(regs[x], r)
                     ELSE regs[x]], {rop, rrem}, Max(LimbsOf(nv), LimbsOf(dv)))
       /\ last' = Call(op, "ok", rop, rrem, nv, dv, 0, ret)

\* One division call: a zero divisor raises the division by zero before
\* anything is stored; otherwise the quotient goes to rop and the remainder
\* to rrem ("none" where the routine has no such destination).
Divide(op, rop, rrem, nv, dv, q, r, ret) ==
  IF dv = 0
  THEN /\ regs' = regs
       /\ last' = Call(op, "DivisionByZero", rop, rrem, nv, dv, 0, 0)
  ELSE /\ regs' \in Grow([x \in Regs |->
                     IF x = rop THEN Store(regs[x], q)
                     ELSE IF x = rrem THEN Store(regs[x], r)
                     ELSE regs[x]], {rop, rrem}, Max(LimbsOf(nv), LimbsOf(dv)))
       /\ last' = Call(op, "ok", rop, rrem, nv, dv, 0, ret)

\* One division call whose divisor parameter is declared c_ulong while the
\* routine takes an mpz_t: the word d is read as an address.
DivideAt(op, rop, rrem, nv, d, mode) ==
  \E rd \in ReadMpzAt(d) :
    IF rd.fault
    THEN /\ regs' = regs
         /\ last' = Call(op, "Fault", rop, rrem, nv, d, 0, 0)
    ELSE IF rd.v = 0
    THEN /\ regs' = regs
         /\ last' = Call(op, "DivisionByZero", rop, rrem, nv, d, 0, 0)
    ELSE /\ regs' \in Grow([x \in Regs |->
                      IF x = rop THEN Store(regs[x], CDivQ(nv, rd.v))
                      ELSE IF x = rrem THEN Store(regs[x], CDivR(nv, rd.v))
                      ELSE regs[x]], {rop, rrem}, Max(LimbsOf(nv), LimbsOf(rd.v)))
         /\ last' = Call(op, "ok", rop, rrem, nv, d, 0, 0)

mpz_cdiv_q(rop, n, d) ==
  /\ Spend
  /\ Live(rop) /\ Live(n)
  /\ DivideAt("mpz_cdiv_q", rop, "none", V(n), d, "c")
  /\ UNCHANGED <<str, ar, own>>

mpz_cdiv_r(rop, n, d) ==
  /\ Spend
  /\ Live(rop) /\ Live(n)
  /\ DivideAt("mpz_cdiv_r", "none", rop, V(n), d, "c")
  /\ UNCHANGED <<str, ar, own>>

mpz_cdiv_qr(rop, r, n, d) ==
  /\ Spend
  /\ Live(rop) /\ Live(r) /\ Live(n) /\ rop # r
  /\ DivideAt("mpz_cdiv_qr", rop, r, V(n), d, "c")
  /\ UNCHANGED <<str, ar, own>>

mpz_fdiv_q(rop, n, d) ==
  /\ Spend
  /\ Live(rop) /\ Live(n) /\ Live(d)
  /\ Divide("mpz_fdiv_q", rop, "none", V(n), V(d), FDivQ(V(n), V(d)), 0, 0)
  /\ UNCHANGED <<str, ar, own>>

mpz_fdiv_r(rop, n, d) ==
  /\ Spend
  /\ Live(rop) /\ Live(n) /\ Live(d)
  /\ Divide("mpz_fdiv_r", "none", rop, V(n), V(d), 0, FDivR(V(n), V(d)), 0)
  /\ UNCHANGED <<str, ar, own>>

\* r is declared mpz_srcptr; the routine stores the remainder through it
mpz_fdiv_qr(rop, r, n, d) ==
  /\ Spend
  /\ Live(rop) /\ Live(r) /\ Live(n) /\ Live(d) /\ rop # r
  /\ Divide("mpz_fdiv_qr", rop, r, V(n), V(d), FDivQ(V(n), V(d)), FDivR(V(n), V(d)), 0)
  /\ UNCHANGED <<str, ar, own>>

mpz_tdiv_q(rop, n, d) ==
  /\ Spend
  /\ Live(rop) /\ Live(n) /\ Live(d)
  /\ Divide("mpz_tdiv_q", rop, "none", V(n), V(d), TDivQ(V(n), V(d)), 0, 0)
  /\ UNCHANGED <<str, ar, own>>

mpz_tdiv_r(rop, n, d) ==
  /\ Spend
  /\ Live(rop) /\ Live(n) /\ Live(d)
  /\ Divide("mpz_tdiv_r", "none", rop, V(n), V(d), 0, TDivR(V(n), V(d)), 0)
  /\ UNCHANGED <<str, ar, own>>

\* r is declared mpz_srcptr; the routine stores the remainder through it
mpz_tdiv_qr(rop, r, n, d) ==
  /\ Spend
  /\ Live(rop) /\ Live(r) /\ Live(n) /\ Live(d) /\ rop # r
  /\ Divide("mpz_tdiv_qr", rop, r, V(n), V(d), TDivQ(V(n), V(d)), TDivR(V(n), V(d)), 0)
  /\ UNCHANGED <<str, ar, own>>

mpz_mod(r, n, d) ==
  /\ Spend
  /\ Live(r) /\ Live(n) /\ Live(d)
  /\ Divide("mpz_mod", "none", r, V(n), V(d), 0, Mod(V(n), V(d)), 0)
  /\ UNCHANGED <<str, ar, own>>

\* d is declared mpz_srcptr; the routine takes an unsigned word, so the
\* divisor it sees is the address passed.  It returns the remainder.
\* last.dv is the value of the operand the caller passes, last.cv the word
\* the routine divides by.
mpz_mod_ui(r, n, d) ==
  /\ Spend
  /\ Live(r) /\ Live(n) /\ Live(d)
  /\ regs' \in Grow([regs EXCEPT ![r] = Store(@, Mod(V(n), AddrOf[d]))], {r},
                     LimbsOf(V(n)))
  /\ last' = Call("mpz_mod_ui", "ok", "none", r, V(n), V(d), AddrOf[d], Mod(V(n), AddrOf[d]))
  /\ UNCHANGED <<str, ar, own>>

\* Division is undefined if the divisor is zero, and the exact division
\* does not look for one: it raises the division by zero, faults, or goes on
\* and stores whatever its arithmetic leaves.
DivideExactByZero(op, rop, nv) ==
  \/ /\ regs' = regs
     /\ last' = Call(op, "DivisionByZero", rop, "none", nv, 0, 0, 0)
  \/ /\ regs' = regs
     /\ last' = Call(op, "Fault", rop, "none", nv, 0, 0, 0)
  \/ \E g \in Garbage :
       /\ regs' \in Grow([regs EXCEPT ![rop] = Store(@, g)], {rop}, LimbsOf(nv))
       /\ last' = Call(op, "ok", rop, "none", nv, 0, 0, 0)

\* the caller guarantees that d divides n
mpz_divexact(q, n, d) ==
  /\ Spend
  /\ Live(q) /\ Live(n) /\ Live(d)
  /\ V(d) = 0 \/ Divides(V(d), V(n))
  /\ IF V(d) = 0
     THEN DivideExactByZero("mpz_divexact", q, V(n))
     ELSE Divide("mpz_divexact", q, "none", V(n), V(d), TDivQ(V(n), V(d)), 0, 0)
  /\ UNCHANGED <<str, ar, own>>

mpz_divexact_ui(q, n, d) ==
  /\ Spend
  /\ Live(q) /\ Live(n)
  /\ d = 0 \/ Divides(d, V(n))
  /\ Divide("mpz_divexact_ui", q, "none", V(n), d, TDivQ(V(n), d), 0, 0)
  /\ UNCHANGED <<str, ar, own>>

\* The _ui routines take the divisor as a machine word and return the
\* absolute value of the remainder.

\* RetWord returning the remainder with its sign, as a word
RetWord_Signed(r) == r % WordMod

\* the remainder as the word a _ui routine returns
RetWord(r) == Abs(r)

mpz_cdiv_q_ui(rop, n, d) ==
  /\ Spend
  /\ Live(rop) /\ Live(n)
  /\ Divide("mpz_cdiv_q_ui", rop, "none", V(n), d, CDivQ(V(n), d), 0, RetWord(CDivR(V(n), d)))
  /\ UNCHANGED <<str, ar, own>>

mpz_cdiv_r_ui(rop, n, d) ==
  /\ Spend
  /\ Live(rop) /\ Live(n)
  /\ Divide("mpz_cdiv_r_ui", "none", rop, V(n), d, 0, CDivR(V(n), d), RetWord(CDivR(V(n), d)))
  /\ UNCHANGED <<str, ar, own>>

mpz_cdiv_qr_ui(rop, r, n, d) ==
  /\ Spend
  /\ Live(rop) /\ Live(r) /\ Live(n) /\ rop # r
  /\ Divide("mpz_cdiv_qr_ui", rop, r, V(n), d, CDivQ(V(n), d), CDivR(V(n), d),
            RetWord(CDivR(V(n), d)))
  /\ UNCHANGED <<str, ar, own>>

\* mpz_cdiv_ui storing the remainder through its mutable parameter
mpz_cdiv_ui_StoreRemainder(rop, d) ==
  /\ Spend
  /\ Live(rop)
  /\ Divide("mpz_cdiv_ui", "none", rop, V(rop), d, 0, CDivR(V(rop), d),
            RetWord(CDivR(V(rop), d)))
  /\ UNCHANGED <<str, ar, own>>

\* the dividend is the parameter declared rop: mpz_ptr; nothing is stored
mpz_cdiv_ui(rop, d) ==
  /\ Spend
  /\ Live(rop)
  /\ Divide("mpz_cdiv_ui", "none", "none", V(rop), d, 0, 0, RetWord(CDivR(V(rop), d)))
  /\ UNCHANGED <<str, ar, own>>

mpz_fdiv_q_ui(rop, n, d) ==
  /\ Spend
  /\ Live(rop) /\ Live(n)
  /\ Divide("mpz_fdiv_q_ui", rop, "none", V(n), d, FDivQ(V(n), d), 0, RetWord(FDivR(V(n), d)))
  /\ UNCHANGED <<str, ar, own>>

mpz_fdiv_r_ui(rop, n, d) ==
  /\ Spend
  /\ Live(rop) /\ Live(n)
  /\ Divide("mpz_fdiv_r_ui", "none", rop, V(n), d, 0, FDivR(V(n), d), RetWord(FDivR(V(n), d)))
  /\ UNCHANGED <<str, ar, own>>

\* r is declared mpz_srcptr; the routine stores the remainder through it
mpz_fdiv_qr_ui(rop, r, n, d) ==
  /\ Spend
  /\ Live(rop) /\ Live(r) /\ Live(n) /\ rop # r
  /\ Divide("mpz_fdiv_qr_ui", rop, r, V(n), d, FDivQ(V(n), d), FDivR(V(n), d),
            RetWord(FDivR(V(n), d)))
  /\ UNCHANGED <<str, ar, own>>

mpz_fdiv_ui(rop, d) ==
  /\ Spend
  /\ Live(rop)
  /\ Divide("mpz_fdiv_ui", "none", "none", V(rop), d, 0, 0, RetWord(FDivR(V(rop), d)))
  /\ UNCHANGED <<str, ar, own>>

mpz_tdiv_q_ui(rop, n, d) ==
  /\ Spend
  /\ Live(rop) /\ Live(n)
  /\ Divide("mpz_tdiv_q_ui", rop, "none", V(n), d, TDivQ(V(n), d), 0, RetWord(TDivR(V(n), d)))
  /\ UNCHANGED <<str, ar, own>>

mpz_tdiv_r_ui(rop, n, d) ==
  /\ Spend
  /\ Live(rop) /\ Live(n)
  /\ Divide("mpz_tdiv_r_ui", "none", rop, V(n), d, 0, TDivR(V(n), d), RetWord(TDivR(V(n), d)))
  /\ UNCHANGED <<str, ar, own>>

\* r is declared mpz_srcptr; the routine stores the remainder through it
mpz_tdiv_qr_ui(rop, r, n, d) ==
  /\ Spend
  /\ Live(rop) /\ Live(r) /\ Live(n) /\ rop # r
  /\ Divide("mpz_tdiv_qr_ui", rop, r, V(n), d, TDivQ(V(n), d), TDivR(V(n), d),
            RetWord(TDivR(V(n), d)))
  /\ UNCHANGED <<str, ar, own>>

mpz_tdiv_ui(rop, d) ==
  /\ Spend
  /\ Live(rop)
  /\ Divide("mpz_tdiv_ui", "none", "none", V(rop), d, 0, 0, RetWord(TDivR(V(rop), d)))
  /\ UNCHANGED <<str, ar, own>>

\* The predicates accept a zero divisor.
mpz_divisible_p(n, d) ==
  /\ Spend
  /\ Live(n) /\ Live(d)
  /\ regs' = regs
  /\ last' = Call("mpz_divisible_p", "ok", "none", "none", V(n), V(d), 0,
                  IF Divides(V(d), V(n)) THEN 1 ELSE 0)
  /\ UNCHANGED <<str, ar, own>>

mpz_congruent_p(n, c, d) ==
  /\ Spend
  /\ Live(n) /\ Live(c) /\ Live(d)
  /\ regs' = regs
  /\ last' = Call("mpz_congruent_p", "ok", "none", "none", V(n), V(d), V(c),
                  IF Congruent(V(n), V(c), V(d)) THEN 1 ELSE 0)
  /\ UNCHANGED <<str, ar, own>>

\* ------------------------------------------------------------------------
\* Exponentiation modulo m: square and multiply, reducing at every step.
\* The result lies in 0 .. |m| - 1.

\* PowMod multiplying without squaring
RECURSIVE PowMod_NoSquare(_, _, _)
PowMod_NoSquare(b, e, m) ==
  IF e = 0 THEN Mod(1, m)
  ELSE LET h == PowMod_NoSquare(b, e \div 2, m)
       IN Mod(h * (IF e % 2 = 1 THEN b ELSE 1), m)

RECURSIVE PowMod(_, _, _)
PowMod(b, e, m) ==
  IF e = 0 THEN Mod(1, m)
  ELSE LET h == PowMod(b, e \div 2, m)
       IN Mod(h * h * (IF e % 2 = 1 THEN b ELSE 1), m)

\* Inverses with every residue taken for an inverse
Inverses_Any(b, m) == 0 .. (Abs(m) - 1)

\* the inverses of b modulo m
Inverses(b, m) == {x \in 0 .. (Abs(m) - 1) : Mod(b * x, m) = Mod(1, m)}

\* A zero modulus, or a negative exponent whose base has no inverse, raises
\* the division by zero: the outcomes [dbz, v].  Whether anything has an
\* inverse modulo 1 or -1 is left to mpz_invert, to which the doc comment
\* refers: a library that counts 0 as the inverse completes with 0, one
\* that counts no inverse modulo 1 raises the division by zero.
powm(b, e, m) ==
  IF m = 0 \/ (e < 0 /\ Inverses(b, m) = {})
  THEN {[dbz |-> TRUE, v |-> 0]}
  ELSE {[dbz |-> FALSE,
         v |-> IF e >= 0 THEN PowMod(b, e, m)
               ELSE PowMod(CHOOSE x \in Inverses(b, m) : TRUE, -e, m)]}
       \cup (IF e < 0 /\ Abs(m) = 1 THEN {[dbz |-> TRUE, v |-> 0]} ELSE {})

PowModCall(op, rop, b, e, m) ==
  \E r \in powm(b, e, m) :
    IF r.dbz
    THEN /\ regs' = regs
         /\ last' = Call(op, "DivisionByZero", rop, "none", b, m, e, 0)
    ELSE /\ regs' \in Grow([regs EXCEPT ![rop] = Store(@, r.v)], {rop},
                            Max(LimbsOf(b), LimbsOf(m)))
         /\ last' = Call(op, "ok", rop, "none", b, m, e, 0)

mpz_powm(rop, base, exp, m) ==
  /\ Spend
  /\ Live(rop) /\ Live(base) /\ Live(exp) /\ Live(m)
  /\ PowModCall("mpz_powm", rop, V(base), V(exp), V(m))
  /\ UNCHANGED <<str, ar, own>>

mpz_powm_ui(rop, base, exp, m) ==
  /\ Spend
  /\ Live(rop) /\ Live(base) /\ Live(m)
  /\ PowModCall("mpz_powm_ui", rop, V(base), exp, V(m))
  /\ UNCHANGED <<str, ar, own>>

\* ------------------------------------------------------------------------
\* Conversion from and to text.  A text is a sequence of characters.

\* the digits in the order 0-9, A-Z, a-z
Digits ==
  <<"0", "1", "2", "3", "4", "5", "6", "7", "8", "9",
    "A", "B", "C", "D", "E", "F", "G", "H", "I", "J", "K", "L", "M",
    "N", "O", "P", "Q", "R", "S", "T", "U", "V", "W", "X", "Y", "Z",
    "a", "b", "c", "d", "e", "f", "g", "h", "i", "j", "k", "l", "m",
    "n", "o", "p", "q", "r", "s", "t", "u", "v", "w", "x", "y", "z">>

\* the vertical tab (the character itself between the quotes: the language
\* has no escape for it)
VTab == ""

\* white space as isspace of the C library tells it: blank, tab, new line,
\* vertical tab, form feed, carriage return
IsSpace(c) == c \in {" ", "\t", "\n", VTab, "\f", "\r"}

\* The value of the character c as a digit, -1 when it is no digit.  Up to
\* base 36 case is ignored; above it upper case letters are 10..35 and lower
\* case letters 36..61.
DigitValue(c, base) ==
  IF \A i \in 1 .. Len(Digits) : Digits[i] # c THEN -1
  ELSE LET i == CHOOSE k \in 1 .. Len(Digits) : Digits[k] = c
       IN IF base <= 36 /\ i > 36 THEN i - 27 ELSE i - 1

\* the text from its first character that is no white space
RECURSIVE SkipLeading(_)
SkipLeading(t) ==
  IF t # <<>> /\ IsSpace(Head(t)) THEN SkipLeading(Tail(t)) ELSE t

\* the text from its first character that is neither white space nor a zero
RECURSIVE SkipZeros(_)
SkipZeros(t) ==
  IF t # <<>> /\ (IsSpace(Head(t)) \/ Head(t) = "0") THEN SkipZeros(Tail(t)) ELSE t

\* the text without its white space, which is ignored among the digits
RECURSIVE SkipSpace(_)
SkipSpace(t) ==
  IF t = <<>> THEN <<>>
  ELSE IF IsSpace(Head(t)) THEN SkipSpace(Tail(t))
  ELSE <<Head(t)>> \o SkipSpace(Tail(t))

\* Base 0 takes the base from the leading characters: 0x and 0X hexadecimal,
\* 0b and 0B binary, 0 octal, decimal otherwise.
ResolveBase(t, base) ==
  IF base # 0 THEN [base |-> base, body |-> t]
  ELSE IF Len(t) >= 2 /\ t[1] = "0" /\ t[2] \in {"x", "X"}
       THEN [base |-> 16, body |-> SubSeq(t, 3, Len(t))]
  ELSE IF Len(t) >= 2 /\ t[1] = "0" /\ t[2] \in {"b", "B"}
       THEN [base |-> 2, body |-> SubSeq(t, 3, Len(t))]
  ELSE IF Len(t) >= 1 /\ t[1] = "0" THEN [base |-> 8, body |-> t]
  ELSE [base |-> 10, body |-> t]

\* ReadDigits without the comparison of the digit with the base
RECURSIVE ReadDigits_AnyDigit(_, _, _)
ReadDigits_AnyDigit(t, base, acc) ==
  IF t = <<>> THEN acc
  ELSE LET dv == DigitValue(Head(t), base)
       IN IF dv < 0 THEN -1
          ELSE ReadDigits_AnyDigit(Tail(t), base, acc * base + dv)

\* the digits read left to right on top of acc; -1 at a character that is no
\* digit of the base
RECURSIVE ReadDigits(_, _, _)
ReadDigits(t, base, acc) ==
  IF t = <<>> THEN acc
  ELSE LET dv == DigitValue(Head(t), base)
       IN IF dv < 0 \/ dv >= base THEN -1
          ELSE ReadDigits(Tail(t), base, acc * base + dv)

\* The number a text denotes in a base: [ok, v].  Leading white space is
\* passed over, then an optional minus sign; the character that follows has
\* to be a digit of the base (of base 10 when the base is 0).  After the
\* prefix of base 0, leading zeros and white space are passed over, and what
\* remains is read as digits with the white space among them ignored;
\* nothing remaining is the number 0.
ParseStr(t, base) ==
  LET s == SkipLeading(t)
      neg == s # <<>> /\ Head(s) = "-"
      u == IF neg THEN Tail(s) ELSE s
      lim == IF base = 0 THEN 10 ELSE base
      rb == ResolveBase(u, base)
      m == ReadDigits(SkipSpace(SkipZeros(rb.body)), rb.base, 0)
  IN IF u = <<>> \/ DigitValue(Head(u), base) \notin 0 .. (lim - 1) \/ m < 0
     THEN [ok |-> FALSE, v |-> 0]
     ELSE [ok |-> TRUE, v |-> IF neg THEN -m ELSE m]

\* the destination of an assignment from text that failed: the text is
\* read before anything is stored
FailedAssign(z) == z

\* mpz_set_str on the variable contents z: the outcomes [ret, z].  The text
\* is checked first.  The space for a value other than zero is asked for
\* from the number of its digits before they are converted, which comes to
\* a limb or two more than the value takes.
set_str(z, t, base) ==
  LET p == ParseStr(t, base)
  IN IF ~p.ok THEN {[ret |-> -1, z |-> FailedAssign(z)]}
     ELSE IF p.v = 0 THEN {[ret |-> 0, z |-> Store(z, 0)]}
     ELSE {[ret |-> 0, z |-> [Store(z, p.v) EXCEPT !.alloc = a]] :
             a \in Room(Store(z, p.v), LimbsOf(p.v) + 1)}

\* mpz_init_set_str: the variable is initialised even if an error occurs
init_set_str(t, base) == set_str(Store(Uninit, 0), t, base)

\* Up to base 36 digits and lower case letters are used, for -2..-36 digits
\* and upper case letters, for 37..62 digits, upper case, lower case.
DigitChar(dv, base) ==
  IF base >= 2 /\ base <= 36 /\ dv >= 10 THEN Digits[dv + 27] ELSE Digits[dv + 1]

\* MagnitudeText with the least significant digit first
RECURSIVE MagnitudeText_Reversed(_, _)
MagnitudeText_Reversed(m, base) ==
  IF m < Abs(base) THEN <<DigitChar(m, base)>>
  ELSE <<DigitChar(m % Abs(base), base)>> \o MagnitudeText_Reversed(m \div Abs(base), base)

RECURSIVE MagnitudeText(_, _)
MagnitudeText(m, base) ==
  IF m < Abs(base) THEN <<DigitChar(m, base)>>
  ELSE MagnitudeText(m \div Abs(base), base) \o <<DigitChar(m % Abs(base), base)>>

\* mpz_get_str: the text of v in a base, with a minus sign when negative
get_str(v, base) ==
  IF v < 0 THEN <<"-">> \o MagnitudeText(-v, base) ELSE MagnitudeText(v, base)

\* the bases the parser accepts, and those the formatter accepts
SetStrBases == {0} \cup (2 .. 62)

GetStrBases == (2 .. 62) \cup {-b : b \in 2 .. 36}

\* the texts and bases the calls of Spec and SpecCall pass
SampleTexts ==
  {<<>>, <<" ">>, <<"-">>, <<"7">>, <<"x">>, <<"-", "7">>, <<"1", " ", "0">>,
   <<"-", " ", "7">>, <<"1", "\t", "0">>, <<"1", VTab, "0">>, <<"0", "x">>}

SampleBases == {0, 2, 10}

StrCall(op, status, rop, ret, t, base) ==
  [op |-> op, status |-> status, rop |-> rop, rrem |-> "none",
   nv |-> 0, dv |-> 0, cv |-> 0, ret |-> ret, txt |-> t, base |-> base]

mpz_set_str(rop, s, base) ==
  /\ Spend
  /\ Live(rop) /\ base \in SetStrBases
  /\ \E r \in set_str(regs[rop], s, base) :
        /\ regs' = [regs EXCEPT ![rop] = r.z]
        /\ last' = StrCall("mpz_set_str", IF r.ret = 0 THEN "ok" ELSE "ParseError",
                           rop, r.ret, s, base)
  /\ UNCHANGED <<str, ar, own>>

\* not to be used on a variable already initialised
mpz_init_set_str(rop, s, base) ==
  /\ Spend
  /\ ~Live(rop) /\ base \in SetStrBases
  /\ \E r \in init_set_str(s, base) :
        /\ regs' = [regs EXCEPT ![rop] = r.z]
        /\ last' = StrCall("mpz_init_set_str", IF r.ret = 0 THEN "ok" ELSE "ParseError",
                           rop, r.ret, s, base)
  /\ UNCHANGED <<str, ar, own>>

\* the text is returned; op is left as it is
mpz_get_str(base, op) ==
  /\ Spend
  /\ Live(op) /\ base \in GetStrBases
  /\ regs' = regs
  /\ last' = StrCall("mpz_get_str", "ok", "none", 0, get_str(V(op), base), base)
  /\ UNCHANGED <<str, ar, own>>

\* ------------------------------------------------------------------------
\* Division by 2^b: right shifts and bit masks on the magnitude.

\* the magnitude m shifted right by b bits
RECURSIVE ShiftRight(_, _)
ShiftRight(m, b) == IF b = 0 THEN m ELSE ShiftRight(m \div 2, b - 1)

\* the low b bits of the magnitude m
RECURSIVE LowBits(_, _)
LowBits(m, b) == IF b = 0 THEN 0 ELSE (m % 2) + 2 * LowBits(m \div 2, b - 1)

\* sign and magnitude: the magnitude is shifted, the sign kept
TDivQ2Exp(n, b) == Sgn(n) * ShiftRight(Abs(n), b)

TDivR2Exp(n, b) == Sgn(n) * LowBits(Abs(n), b)

\* FDivQ2Exp shifting the magnitude of a negative n
FDivQ2Exp_Magnitude(n, b) == Sgn(n) * ShiftRight(Abs(n), b)

\* twos complement: a negative n is shifted as the complement of -n - 1
FDivQ2Exp(n, b) ==
  IF n >= 0 THEN ShiftRight(n, b) ELSE -(ShiftRight(Abs(n) - 1, b) + 1)

FDivR2Exp(n, b) ==
  IF n >= 0 THEN LowBits(n, b) ELSE LowBits(Pow(2, b) - LowBits(Abs(n), b), b)

CDivQ2Exp(n, b) ==
  IF n > 0 THEN ShiftRight(n - 1, b) + 1 ELSE -ShiftRight(Abs(n), b)

CDivR2Exp(n, b) ==
  IF n > 0 THEN -LowBits(Pow(2, b) - LowBits(n, b), b) ELSE -LowBits(Abs(n), b)

\* the bit counts and bit indices passed as mp_bitcnt_t
BitCounts == 0 .. WordBits

\* one call dividing by 2^b: the divisor is never zero
Divide2Exp(op, rop, rrem, nv, b, q, r) ==
  /\ regs' \in Grow([x \in Regs |->
                IF x = rop THEN Store(regs[x], q)
                ELSE IF x = rrem THEN Store(regs[x], r)
                ELSE regs[x]], {rop, rrem}, LimbsOf(nv))
  /\ last' = Call(op, "ok", rop, rrem, nv, Pow(2, b), b, 0)

mpz_cdiv_q_2exp(rop, n, b) ==
  /\ Spend
  /\ Live(rop) /\ Live(n)
  /\ Divide2Exp("mpz_cdiv_q_2exp", rop, "none", V(n), b, CDivQ2Exp(V(n), b), 0)
  /\ UNCHANGED <<str, ar, own>>

mpz_cdiv_r_2exp(rop, n, b) ==
  /\ Spend
  /\ Live(rop) /\ Live(n)
  /\ Divide2Exp("mpz_cdiv_r_2exp", "none", rop, V(n), b, 0, CDivR2Exp(V(n), b))
  /\ UNCHANGED <<str, ar, own>>

mpz_fdiv_q_2exp(rop, n, b) ==
  /\ Spend
  /\ Live(rop) /\ Live(n)
  /\ Divide2Exp("mpz_fdiv_q_2exp", rop, "none", V(n), b, FDivQ2Exp(V(n), b), 0)
  /\ UNCHANGED <<str, ar, own>>

mpz_fdiv_r_2exp(rop, n, b) ==
  /\ Spend
  /\ Live(rop) /\ Live(n)
  /\ Divide2Exp("mpz_fdiv_r_2exp", "none", rop, V(n), b, 0, FDivR2Exp(V(n), b))
  /\ UNCHANGED <<str, ar, own>>

mpz_tdiv_q_2exp(q, n, b) ==
  /\ Spend
  /\ Live(q) /\ Live(n)
  /\ Divide2Exp("mpz_tdiv_q_2exp", q, "none", V(n), b, TDivQ2Exp(V(n), b), 0)
  /\ UNCHANGED <<str, ar, own>>

mpz_tdiv_r_2exp(r, n, b) ==
  /\ Spend
  /\ Live(r) /\ Live(n)
  /\ Divide2Exp("mpz_tdiv_r_2exp", "none", r, V(n), b, 0, TDivR2Exp(V(n), b))
  /\ UNCHANGED <<str, ar, own>>

\* ------------------------------------------------------------------------
\* Addition, subtraction and multiplication on sign and magnitude: the
\* magnitudes are added, subtracted and multiplied limb by limb, the carry or
\* borrow passing to the next limb.

Hd(d) == IF d = <<>> THEN 0 ELSE Head(d)

Tl(d) == IF d = <<>> THEN <<>> ELSE Tail(d)

\* the limbs without most significant zero limbs
RECURSIVE Normalize(_)
Normalize(d) ==
  IF d # <<>> /\ d[Len(d)] = 0 THEN Normalize(SubSeq(d, 1, Len(d) - 1)) ELSE d

\* AddMag losing the carry out of every limb
RECURSIVE AddMag_NoCarry(_, _, _)
AddMag_NoCarry(x, y, carry) ==
  IF x = <<>> /\ y = <<>> THEN <<>>
  ELSE <<(Hd(x) + Hd(y)) % LimbMod>> \o AddMag_NoCarry(Tl(x), Tl(y), 0)

\* x + y + carry
RECURSIVE AddMag(_, _, _)
AddMag(x, y, carry) ==
  IF x = <<>> /\ y = <<>> THEN (IF carry = 0 THEN <<>> ELSE <<carry>>)
  ELSE LET s == Hd(x) + Hd(y) + carry
       IN <<s % LimbMod>> \o AddMag(Tl(x), Tl(y), s \div LimbMod)

\* x - y - borrow, for x >= y
RECURSIVE SubMag(_, _, _)
SubMag(x, y, borrow) ==
  IF x = <<>> THEN <<>>
  ELSE LET s == Hd(x) - Hd(y) - borrow
       IN <<s % LimbMod>> \o SubMag(Tl(x), Tl(y), IF s < 0 THEN 1 ELSE 0)

\* x * l + carry, l one limb
RECURSIVE MulLimb(_, _, _)
MulLimb(x, l, carry) ==
  IF x = <<>> THEN (IF carry = 0 THEN <<>> ELSE <<carry>>)
  ELSE LET s == Head(x) * l + carry
       IN <<s % LimbMod>> \o MulLimb(Tail(x), l, s \div LimbMod)

\* x * y, one limb of x at a time
RECURSIVE MulMag(_, _)
MulMag(x, y) ==
  IF x = <<>> THEN <<>>
  ELSE AddMag(MulLimb(y, Head(x), 0), <<0>> \o MulMag(Tail(x), y), 0)

\* whether the magnitude x is at least the magnitude y
RECURSIVE GeMag(_, _)
GeMag(x, y) ==
  IF Len(x) # Len(y) THEN Len(x) > Len(y)
  ELSE IF x = <<>> THEN TRUE
  ELSE IF x[Len(x)] # y[Len(y)] THEN x[Len(x)] > y[Len(y)]
  ELSE GeMag(SubSeq(x, 1, Len(x) - 1), SubSeq(y, 1, Len(y) - 1))

\* Pack keeping most significant zero limbs
Pack_Unnormalized(z, sg, d, n) ==
  LET c == [live |-> TRUE, alloc |-> Max(z.alloc, Len(d)), size |-> sg * Len(d), d |-> d]
  IN {[c EXCEPT !.alloc = a] : a \in Room(c, n)}

\* The contents the destination z may have when it holds the magnitude d
\* with the sign sg, the routine having asked for n limbs before it
\* computed d: the limbs are normalized, and the space is what it was or
\* anything up to what Room allows.
Pack(z, sg, d, n) ==
  LET m == Normalize(d)
      c == [live |-> TRUE, alloc |-> Max(z.alloc, Len(m)),
            size |-> (IF m = <<>> THEN 0 ELSE sg * Len(m)), d |-> m]
  IN {[c EXCEPT !.alloc = a] : a \in Room(c, n)}

\* the sum of sign sa, limbs da and sign sb, limbs db, into z, by a routine
\* that asked for n limbs
AddSigned(z, sa, da, sb, db, n) ==
  IF sa = sb THEN Pack(z, sa, AddMag(da, db, 0), n)
  ELSE IF sa = 0 THEN Pack(z, sb, db, n)
  ELSE IF sb = 0 THEN Pack(z, sa, da, n)
  ELSE IF GeMag(da, db) THEN Pack(z, sa, SubMag(da, db, 0), n)
  ELSE Pack(z, sb, SubMag(db, da, 0), n)

\* add with the carries lost
add_NoCarry(z, a, b) ==
  IF Sgn(a.size) = Sgn(b.size)
  THEN Pack(z, Sgn(a.size), AddMag_NoCarry(a.d, b.d, 0), Max(Len(a.d), Len(b.d)))
  ELSE AddSigned(z, Sgn(a.size), a.d, Sgn(b.size), b.d, Max(Len(a.d), Len(b.d)))

\* mpz_add on contents: z the destination, a and b the operands; the
\* contents z may have afterwards.  The routine asks for one limb more than
\* the longer operand has.
add(z, a, b) ==
  AddSigned(z, Sgn(a.size), a.d, Sgn(b.size), b.d, Max(Len(a.d), Len(b.d)))

\* mpz_sub on contents
sub(z, a, b) ==
  AddSigned(z, Sgn(a.size), a.d, -Sgn(b.size), b.d, Max(Len(a.d), Len(b.d)))

\* mpz_mul on contents: the routine asks for the limbs of both operands
mul(z, a, b) ==
  Pack(z, Sgn(a.size) * Sgn(b.size), MulMag(a.d, b.d), Len(a.d) + Len(b.d))

mpz_add(rop, op1, op2) ==
  /\ Spend
  /\ Live(rop) /\ Live(op1) /\ Live(op2)
  /\ \E z \in add(regs[rop], regs[op1], regs[op2]) : regs' = [regs EXCEPT ![rop] = z]
  /\ last' = Call("mpz_add", "ok", rop, "none", V(op1), V(op2), 0, 0)
  /\ UNCHANGED <<str, ar, own>>

mpz_sub(rop, op1, op2) ==
  /\ Spend
  /\ Live(rop) /\ Live(op1) /\ Live(op2)
  /\ \E z \in sub(regs[rop], regs[op1], regs[op2]) : regs' = [regs EXCEPT ![rop] = z]
  /\ last' = Call("mpz_sub", "ok", rop, "none", V(op1), V(op2), 0, 0)
  /\ UNCHANGED <<str, ar, own>>

mpz_mul(rop, op1, op2) ==
  /\ Spend
  /\ Live(rop) /\ Live(op1) /\ Live(op2)
  /\ \E z \in mul(regs[rop], regs[op1], regs[op2]) : regs' = [regs EXCEPT ![rop] = z]
  /\ last' = Call("mpz_mul", "ok", rop, "none", V(op1), V(op2), 0, 0)
  /\ UNCHANGED <<str, ar, own>>

\* ------------------------------------------------------------------------
\* Powers.  The case 0^0 yields 1.

\* The power routines count the limbs of the power from the bits of the
\* base and the exponent before they multiply, and ask for PowReserve limbs
\* beyond that count: the limbs asked for when the power is v.
PowReserve == 4

PowLimbs(v) == LimbsOf(v) + PowReserve

mpz_pow_ui(rop, base, exp) ==
  /\ Spend
  /\ Live(rop) /\ Live(base)
  /\ regs' \in Grow([regs EXCEPT ![rop] = Store(@, Pow(V(base), exp))], {rop},
                     PowLimbs(Pow(V(base), exp)))
  /\ last' = Call("mpz_pow_ui", "ok", rop, "none", V(base), 0, exp, 0)
  /\ UNCHANGED <<str, ar, own>>

mpz_ui_pow_ui(rop, base, exp) ==
  /\ Spend
  /\ Live(rop)
  /\ regs' \in Grow([regs EXCEPT ![rop] = Store(@, Pow(base, exp))], {rop},
                     PowLimbs(Pow(base, exp)))
  /\ last' = Call("mpz_ui_pow_ui", "ok", rop, "none", base, 0, exp, 0)
  /\ UNCHANGED <<str, ar, own>>

\* ------------------------------------------------------------------------
\* Roots: the truncated integer part of the nth root, found by stepping up
\* from below.  An even root of a negative operand and a zeroth root have no
\* value: the routine raises an arithmetic exception.

\* the largest root at or above r whose nth power does not exceed v >= 0
RECURSIVE RootFrom(_, _, _)
RootFrom(v, n, r) == IF Pow(r + 1, n) > v THEN r ELSE RootFrom(v, n, r + 1)

\* the truncated nth root of u and the remainder u - root^n
rootrem(u, n) ==
  IF n = 0 \/ (u < 0 /\ n % 2 = 0) THEN [fault |-> TRUE, root |-> 0, rem |-> 0]
  ELSE LET r == Sgn(u) * RootFrom(Abs(u), n, 0)
       IN [fault |-> FALSE, root |-> r, rem |-> u - Pow(r, n)]

\* sqrtrem with the root rounded to the nearest integer
sqrtrem_Nearest(op) ==
  LET r == rootrem(op, 2)
  IN IF ~r.fault /\ r.rem > r.root
     THEN [fault |-> FALSE, root |-> r.root + 1, rem |-> op - (r.root + 1) * (r.root + 1)]
     ELSE r

\* the truncated square root of op and the remainder op - root^2
sqrtrem(op) == rootrem(op, 2)

\* non-zero if the square root of op is an integer
perfect_square_p(op) == IF op >= 0 /\ \E r \in 0 .. op : r * r = op THEN 1 ELSE 0

\* One root call: the root goes to rop and the remainder to rrem ("none"
\* where the routine has no such destination).
RootCall(op, rop, rrem, u, n, ret) ==
  LET r == rootrem(u, n)
  IN IF r.fault
     THEN /\ regs' = regs
          /\ last' = Call(op, "Fault", rop, rrem, u, 0, n, 0)
     ELSE /\ regs' \in Grow([x \in Regs |->
                        IF x = rop THEN Store(regs[x], r.root)
                        ELSE IF x = rrem THEN Store(regs[x], r.rem)
                        ELSE regs[x]], {rop, rrem}, LimbsOf(u))
          /\ last' = Call(op, "ok", rop, rrem, u, 0, n, IF ret /\ r.rem = 0 THEN 1 ELSE 0)

\* declared without a return value
mpz_nthroot(rop, op, n) ==
  /\ Spend
  /\ Live(rop) /\ Live(op)
  /\ RootCall("mpz_nthroot", rop, "none", V(op), n, FALSE)
  /\ UNCHANGED <<str, ar, own>>

\* returns non-zero if the computation was exact
mpz_root(rop, op, n) ==
  /\ Spend
  /\ Live(rop) /\ Live(op)
  /\ RootCall("mpz_root", rop, "none", V(op), n, TRUE)
  /\ UNCHANGED <<str, ar, own>>

\* rem is declared mpz_srcptr; the routine stores the remainder through it
mpz_rootrem(rop, rem, u, n) ==
  /\ Spend
  /\ Live(rop) /\ Live(rem) /\ Live(u) /\ rop # rem
  /\ RootCall("mpz_rootrem", rop, rem, V(u), n, FALSE)
  /\ UNCHANGED <<str, ar, own>>

mpz_sqrt(rop, op) ==
  /\ Spend
  /\ Live(rop) /\ Live(op)
  /\ RootCall("mpz_sqrt", rop, "none", V(op), 2, FALSE)
  /\ UNCHANGED <<str, ar, own>>

\* the same variable for rop1 and rop2 is undefined
mpz_sqrtrem(rop1, rop2, op) ==
  /\ Spend
  /\ Live(rop1) /\ Live(rop2) /\ Live(op) /\ rop1 # rop2
  /\ RootCall("mpz_sqrtrem", rop1, rop2, V(op), 2, FALSE)
  /\ UNCHANGED <<str, ar, own>>

mpz_perfect_square_p(op) ==
  /\ Spend
  /\ Live(op)
  /\ regs' = regs
  /\ last' = Call("mpz_perfect_square_p", "ok", "none", "none", V(op), 0, 0,
                  perfect_square_p(V(op)))
  /\ UNCHANGED <<str, ar, own>>

\* ------------------------------------------------------------------------
\* Logical and bit manipulation routines.  They behave as if twos complement
\* arithmetic were used, although sign and magnitude is the representation:
\* a negative v is the complement of the magnitude |v| - 1.  The least
\* significant bit is number 0.

RECURSIVE AndNat(_, _)
AndNat(x, y) ==
  IF x = 0 \/ y = 0 THEN 0 ELSE (x % 2) * (y % 2) + 2 * AndNat(x \div 2, y \div 2)

RECURSIVE OrNat(_, _)
OrNat(x, y) ==
  IF x = 0 /\ y = 0 THEN 0
  ELSE Max(x % 2, y % 2) + 2 * OrNat(x \div 2, y \div 2)

RECURSIVE XorNat(_, _)
XorNat(x, y) ==
  IF x = 0 /\ y = 0 THEN 0
  ELSE ((x + y) % 2) + 2 * XorNat(x \div 2, y \div 2)

\* the bits of x that are not bits of y
RECURSIVE AndNotNat(_, _)
AndNotNat(x, y) ==
  IF x = 0 THEN 0 ELSE (x % 2) * (1 - (y % 2)) + 2 * AndNotNat(x \div 2, y \div 2)

\* the magnitude whose complement a negative v is
Comp(v) == Abs(v) - 1

\* the ones complement
BitCom(a) == IF a >= 0 THEN -(a + 1) ELSE Comp(a)

\* BitAnd on the magnitudes, the result negative when both operands are
BitAnd_Magnitude(a, b) ==
  (IF a < 0 /\ b < 0 THEN -1 ELSE 1) * AndNat(Abs(a), Abs(b))

BitAnd(a, b) ==
  IF a >= 0 /\ b >= 0 THEN AndNat(a, b)
  ELSE IF a >= 0 THEN AndNotNat(a, Comp(b))
  ELSE IF b >= 0 THEN AndNotNat(b, Comp(a))
  ELSE -(OrNat(Comp(a), Comp(b)) + 1)

BitIor(a, b) ==
  IF a >= 0 /\ b >= 0 THEN OrNat(a, b)
  ELSE IF a >= 0 THEN -(AndNotNat(Comp(b), a) + 1)
  ELSE IF b >= 0 THEN -(AndNotNat(Comp(a), b) + 1)
  ELSE -(AndNat(Comp(a), Comp(b)) + 1)

BitXor(a, b) ==
  IF a >= 0 /\ b >= 0 THEN XorNat(a, b)
  ELSE IF a >= 0 THEN -(XorNat(a, Comp(b)) + 1)
  ELSE IF b >= 0 THEN -(XorNat(Comp(a), b) + 1)
  ELSE XorNat(Comp(a), Comp(b))

\* one call of a two operand logical routine
LogicCall(op, rop, a, b, v) ==
  /\ regs' \in Grow([regs EXCEPT ![rop] = Store(@, v)], {rop}, Max(LimbsOf(a), LimbsOf(b)))
  /\ last' = Call(op, "ok", rop, "none", a, b, 0, 0)

mpz_and(rop, op1, op2) ==
  /\ Spend
  /\ Live(rop) /\ Live(op1) /\ Live(op2)
  /\ LogicCall("mpz_and", rop, V(op1), V(op2), BitAnd(V(op1), V(op2)))
  /\ UNCHANGED <<str, ar, own>>

mpz_ior(rop, op1, op2) ==
  /\ Spend
  /\ Live(rop) /\ Live(op1) /\ Live(op2)
  /\ LogicCall("mpz_ior", rop, V(op1), V(op2), BitIor(V(op1), V(op2)))
  /\ UNCHANGED <<str, ar, own>>

mpz_xor(rop, op1, op2) ==
  /\ Spend
  /\ Live(rop) /\ Live(op1) /\ Live(op2)
  /\ LogicCall("mpz_xor", rop, V(op1), V(op2), BitXor(V(op1), V(op2)))
  /\ UNCHANGED <<str, ar, own>>

mpz_com(rop, op) ==
  /\ Spend
  /\ Live(rop) /\ Live(op)
  /\ LogicCall("mpz_com", rop, V(op), 0, BitCom(V(op)))
  /\ UNCHANGED <<str, ar, own>>

\* the largest possible mp_bitcnt_t
BitCntMax == WordMod - 1

\* the number of 1 bits of the magnitude x
RECURSIVE PopNat(_)
PopNat(x) == IF x = 0 THEN 0 ELSE (x % 2) + PopNat(x \div 2)

popcount(op) == IF op >= 0 THEN PopNat(op) ELSE BitCntMax

\* hamdist taking operands of different sign by their magnitudes
hamdist_Magnitude(op1, op2) ==
  IF op1 < 0 /\ op2 < 0 THEN PopNat(XorNat(Comp(op1), Comp(op2)))
  ELSE PopNat(XorNat(Abs(op1), Abs(op2)))

hamdist(op1, op2) ==
  IF op1 >= 0 /\ op2 >= 0 THEN PopNat(XorNat(op1, op2))
  ELSE IF op1 < 0 /\ op2 < 0 THEN PopNat(XorNat(Comp(op1), Comp(op2)))
  ELSE BitCntMax

\* the operand is the parameter declared rop: mpz_ptr; nothing is stored
mpz_popcount(rop) ==
  /\ Spend
  /\ Live(rop)
  /\ regs' = regs
  /\ last' = Call("mpz_popcount", "ok", "none", "none", V(rop), 0, 0, popcount(V(rop)))
  /\ UNCHANGED <<str, ar, own>>

mpz_hamdist(op1, op2) ==
  /\ Spend
  /\ Live(op1) /\ Live(op2)
  /\ regs' = regs
  /\ last' = Call("mpz_hamdist", "ok", "none", "none", V(op1), V(op2), 0,
                  hamdist(V(op1), V(op2)))
  /\ UNCHANGED <<str, ar, own>>

\* bit i of op in twos complement
TwosBit(op, i) ==
  IF op >= 0 THEN ShiftRight(op, i) % 2 ELSE 1 - (ShiftRight(Comp(op), i) % 2)

\* ScanFrom giving up at the end of the number whatever the sign
RECURSIVE ScanFrom_EndOfNumber(_, _, _)
ScanFrom_EndOfNumber(op, i, bit) ==
  IF Pow(2, i) > Abs(op) THEN BitCntMax
  ELSE IF TwosBit(op, i) = bit THEN i
  ELSE ScanFrom_EndOfNumber(op, i + 1, bit)

\* Scan from bit i towards more significant bits until the bit sought is
\* found.  Past the end of the number every bit is the sign bit: if that is
\* not the bit sought, no bit is found.
RECURSIVE ScanFrom(_, _, _)
ScanFrom(op, i, bit) ==
  IF TwosBit(op, i) = bit THEN i
  ELSE IF Pow(2, i) > Abs(op) THEN BitCntMax
  ELSE ScanFrom(op, i + 1, bit)

mpz_scan0(op, starting_bit) ==
  /\ Spend
  /\ Live(op)
  /\ regs' = regs
  /\ last' = Call("mpz_scan0", "ok", "none", "none", V(op), 0, starting_bit,
                  ScanFrom(V(op), starting_bit, 0))
  /\ UNCHANGED <<str, ar, own>>

mpz_scan1(op, starting_bit) ==
  /\ Spend
  /\ Live(op)
  /\ regs' = regs
  /\ last' = Call("mpz_scan1", "ok", "none", "none", V(op), 0, starting_bit,
                  ScanFrom(V(op), starting_bit, 1))
  /\ UNCHANGED <<str, ar, own>>

\* ------------------------------------------------------------------------
\* Single bits.  The bit with the index given is set, cleared or complemented
\* in the twos complement view: for a negative v the bit is changed the
\* other way round in the magnitude |v| - 1 whose complement v is.

\* the bit indices passed to the single bit routines
BitIndices == 0 .. (WordBits + 1)

\* setbit setting the bit in the magnitude, the sign kept
setbit_Magnitude(v, i) ==
  (IF v < 0 THEN -1 ELSE 1) * OrNat(Abs(v), Pow(2, i))

setbit(v, i) ==
  IF v >= 0 THEN OrNat(v, Pow(2, i)) ELSE -(AndNotNat(Comp(v), Pow(2, i)) + 1)

clrbit(v, i) ==
  IF v >= 0 THEN AndNotNat(v, Pow(2, i)) ELSE -(OrNat(Comp(v), Pow(2, i)) + 1)

combit(v, i) ==
  IF v >= 0 THEN XorNat(v, Pow(2, i)) ELSE -(XorNat(Comp(v), Pow(2, i)) + 1)

\* one call changing a single bit of rop
BitCall(op, rop, i, v) ==
  /\ regs' \in Grow([regs EXCEPT ![rop] = Store(@, v)], {rop}, LimbsOf(V(rop)))
  /\ last' = Call(op, "ok", rop, "none", V(rop), 0, i, 0)

mpz_setbit(rop, bit_index) ==
  /\ Spend
  /\ Live(rop)
  /\ BitCall("mpz_setbit", rop, bit_index, setbit(V(rop), bit_index))
  /\ UNCHANGED <<str, ar, own>>

mpz_clrbit(rop, bit_index) ==
  /\ Spend
  /\ Live(rop)
  /\ BitCall("mpz_clrbit", rop, bit_index, clrbit(V(rop), bit_index))
  /\ UNCHANGED <<str, ar, own>>

mpz_combit(rop, bit_index) ==
  /\ Spend
  /\ Live(rop)
  /\ BitCall("mpz_combit", rop, bit_index, combit(V(rop), bit_index))
  /\ UNCHANGED <<str, ar, own>>

\* returns bit starting_bit of op as 0 or 1
mpz_tstbit(op, starting_bit) ==
  /\ Spend
  /\ Live(op)
  /\ regs' = regs
  /\ last' = Call("mpz_tstbit", "ok", "none", "none", V(op), 0, starting_bit,
                  TwosBit(V(op), starting_bit))
  /\ UNCHANGED <<str, ar, own>>

\* ------------------------------------------------------------------------
\* Conversion to machine words.

\* mpz_get_ui: the least significant bits of the absolute value that fit
get_ui(op) == LowBits(Abs(op), WordBits)

fits_ulong_p(op) == IF 0 <= op /\ op <= WordMod - 1 THEN 1 ELSE 0

fits_slong_p(op) == IF -(WordMod \div 2) <= op /\ op <= (WordMod \div 2) - 1 THEN 1 ELSE 0

\* mpz_get_si as the routine returns it, a signed long, computed from the
\* least significant word l of |op|: the bits of l below the sign bit for
\* op > 0, and -1 - (the bits of l - 1 below the sign bit) for op < 0, which
\* is op if it fits and otherwise the least significant part with the sign
\* of op, except that a negative op whose least significant part is zero
\* gives the most negative word
get_si(op) ==
  LET l == Abs(op) % WordMod
      h == WordMod \div 2
  IN IF op > 0 THEN l % h
     ELSE IF op < 0 THEN -1 - (((l - 1) % WordMod) % h)
     ELSE 0

\* a signed long received through a return type declared c_ulong
AsUlong(s) == s % WordMod

mpz_get_ui(op) ==
  /\ Spend
  /\ Live(op)
  /\ regs' = regs
  /\ last' = Call("mpz_get_ui", "ok", "none", "none", V(op), 0, 0, get_ui(V(op)))
  /\ UNCHANGED <<str, ar, own>>

\* declared -> c_ulong; the routine returns a signed long
mpz_get_si(op) ==
  /\ Spend
  /\ Live(op)
  /\ regs' = regs
  /\ last' = Call("mpz_get_si", "ok", "none", "none", V(op), 0, 0, AsUlong(get_si(V(op))))
  /\ UNCHANGED <<str, ar, own>>

mpz_fits_ulong_p(op) ==
  /\ Spend
  /\ Live(op)
  /\ regs' = regs
  /\ last' = Call("mpz_fits_ulong_p", "ok", "none", "none", V(op), 0, 0, fits_ulong_p(V(op)))
  /\ UNCHANGED <<str, ar, own>>

mpz_fits_slong_p(op) ==
  /\ Spend
  /\ Live(op)
  /\ regs' = regs
  /\ last' = Call("mpz_fits_slong_p", "ok", "none", "none", V(op), 0, 0, fits_slong_p(V(op)))
  /\ UNCHANGED <<str, ar, own>>

\* ------------------------------------------------------------------------
\* Assignment from another variable, negation, absolute value and swap.

\* the destination z holding the limbs of a with the sign sg
Assign(z, a, sg) ==
  [live |-> TRUE, alloc |-> Max(z.alloc, Len(a.d)), size |-> sg * Len(a.d), d |-> a.d]

mpz_set(rop, op) ==
  /\ Spend
  /\ Live(rop) /\ Live(op)
  /\ regs' = [regs EXCEPT ![rop] = Assign(regs[rop], regs[op], Sgn(regs[op].size))]
  /\ last' = Call("mpz_set", "ok", rop, "none", V(op), 0, 0, 0)
  /\ UNCHANGED <<str, ar, own>>

mpz_neg(rop, op) ==
  /\ Spend
  /\ Live(rop) /\ Live(op)
  /\ regs' = [regs EXCEPT ![rop] = Assign(regs[rop], regs[op], -Sgn(regs[op].size))]
  /\ last' = Call("mpz_neg", "ok", rop, "none", V(op), 0, 0, 0)
  /\ UNCHANGED <<str, ar, own>>

mpz_abs(rop, op) ==
  /\ Spend
  /\ Live(rop) /\ Live(op)
  /\ regs' = [regs EXCEPT ![rop] = Assign(regs[rop], regs[op], Abs(Sgn(regs[op].size)))]
  /\ last' = Call("mpz_abs", "ok", rop, "none", V(op), 0, 0, 0)
  /\ UNCHANGED <<str, ar, own>>

\* the two variables exchange their mpz_struct: allocation, size and limbs
mpz_swap(rop1, rop2) ==
  /\ Spend
  /\ Live(rop1) /\ Live(rop2)
  /\ regs' = [x \in Regs |->
                IF x = rop1 THEN regs[rop2] ELSE IF x = rop2 THEN regs[rop1] ELSE regs[x]]
  /\ last' = Call("mpz_swap", "ok", rop1, rop2, V(rop1), V(rop2), 0, 0)
  /\ UNCHANGED <<str, ar, own>>

\* ------------------------------------------------------------------------
\* Space.  A variable has room for a whole number of limbs; space for n bits
\* is the limbs that hold n bits, and never less than one limb.

LimbsFor(n) == Max(1, (n + LimbBits - 1) \div LimbBits)

mpz_init2(x, n) ==
  /\ Spend
  /\ ~Live(x)
  /\ regs' = [regs EXCEPT ![x] = [live |-> TRUE, alloc |-> LimbsFor(n), size |-> 0, d |-> <<>>]]
  /\ last' = Call("mpz_init2", "ok", x, "none", 0, 0, n, 0)
  /\ UNCHANGED <<str, ar, own>>

\* the space of z changed to n bits: the value is preserved if it fits, or
\* is set to 0 if not
realloc2(z, n) ==
  IF Len(z.d) <= LimbsFor(n) THEN [z EXCEPT !.alloc = LimbsFor(n)]
  ELSE [live |-> TRUE, alloc |-> LimbsFor(n), size |-> 0, d |-> <<>>]

mpz_realloc2(x, n) ==
  /\ Spend
  /\ Live(x)
  /\ regs' = [regs EXCEPT ![x] = realloc2(regs[x], n)]
  /\ last' = Call("mpz_realloc2", "ok", x, "none", V(x), 0, n, 0)
  /\ UNCHANGED <<str, ar, own>>

\* ------------------------------------------------------------------------
\* Fused multiply and add, multiply and subtract: rop + op1 * op2 and
\* rop - op1 * op2.  The product is formed in scratch space, then added to
\* the destination; R is the contents of the variables when the routine is
\* called, b the contents of the second factor, sg 1 to add and -1 to
\* subtract.

\* addmul forming the product in the variable op1
addmul_Op1AsScratch(R, rop, op1, b, sg) ==
  UNION {LET R1 == [R EXCEPT ![op1] = t]
         IN {[R1 EXCEPT ![rop] = z] :
               z \in AddSigned(R1[rop], Sgn(R1[rop].size), R1[rop].d,
                               sg * Sgn(t.size), t.d,
                               Max(Len(R[rop].d), Len(R[op1].d) + Len(b.d)))} :
         t \in mul(R[op1], R[op1], b)}

\* the register files R may become: before it adds, the routine asks for
\* one limb more than the longer of the destination and the product, the
\* product counted as the limbs the two factors have together, and it
\* keeps that space when the sum cancels to fewer limbs
addmul(R, rop, op1, b, sg) ==
  LET t == Normalize(MulMag(R[op1].d, b.d))
  IN {[R EXCEPT ![rop] = z] :
        z \in AddSigned(R[rop], Sgn(R[rop].size), R[rop].d,
                        sg * Sgn(R[op1].size) * Sgn(b.size), t,
                        Max(Len(R[rop].d), Len(R[op1].d) + Len(b.d)))}

mpz_addmul(rop, op1, op2) ==
  /\ Spend
  /\ Live(rop) /\ Live(op1) /\ Live(op2)
  /\ regs' \in addmul(regs, rop, op1, regs[op2], 1)
  /\ last' = Call("mpz_addmul", "ok", rop, "none", V(op1), V(op2), V(rop), 0)
  /\ UNCHANGED <<str, ar, own>>

mpz_addmul_ui(rop, op1, op2) ==
  /\ Spend
  /\ Live(rop) /\ Live(op1)
  /\ regs' \in addmul(regs, rop, op1, Store(Uninit, op2), 1)
  /\ last' = Call("mpz_addmul_ui", "ok", rop, "none", V(op1), op2, V(rop), 0)
  /\ UNCHANGED <<str, ar, own>>

mpz_submul(rop, op1, op2) ==
  /\ Spend
  /\ Live(rop) /\ Live(op1) /\ Live(op2)
  /\ regs' \in addmul(regs, rop, op1, regs[op2], -1)
  /\ last' = Call("mpz_submul", "ok", rop, "none", V(op1), V(op2), V(rop), 0)
  /\ UNCHANGED <<str, ar, own>>

mpz_submul_ui(rop, op1, op2) ==
  /\ Spend
  /\ Live(rop) /\ Live(op1)
  /\ regs' \in addmul(regs, rop, op1, Store(Uninit, op2), -1)
  /\ last' = Call("mpz_submul_ui", "ok", rop, "none", V(op1), op2, V(rop), 0)
  /\ UNCHANGED <<str, ar, own>>

\* ------------------------------------------------------------------------
\* Comparison and size.  The operands are only read.

mpz_cmp(op1, op2) ==
  /\ Spend
  /\ Live(op1) /\ Live(op2)
  /\ regs' = regs
  /\ last' = Call("mpz_cmp", "ok", "none", "none", V(op1), V(op2), 0, Sgn(V(op1) - V(op2)))
  /\ UNCHANGED <<str, ar, own>>

\* the magnitudes are compared by their limb counts first: the difference of
\* the counts is returned when they differ, and -1, 0 or 1 otherwise
cmpabs(a, b) ==
  IF Len(a.d) # Len(b.d) THEN Len(a.d) - Len(b.d) ELSE Sgn(Abs(Val(a)) - Abs(Val(b)))

mpz_cmpabs(op1, op2) ==
  /\ Spend
  /\ Live(op1) /\ Live(op2)
  /\ regs' = regs
  /\ last' = Call("mpz_cmpabs", "ok", "none", "none", V(op1), V(op2), 0,
                  cmpabs(regs[op1], regs[op2]))
  /\ UNCHANGED <<str, ar, own>>

mpz_sgn(op1) ==
  /\ Spend
  /\ Live(op1)
  /\ regs' = regs
  /\ last' = Call("mpz_sgn", "ok", "none", "none", V(op1), 0, 0, Sgn(regs[op1].size))
  /\ UNCHANGED <<str, ar, own>>

\* The number of digits of |op| in the base: exact, or 1 too big unless the
\* base is a power of 2.
mpz_sizeinbase(op, base) ==
  /\ Spend
  /\ Live(op)
  /\ regs' = regs
  /\ \E extra \in (IF base \in {2, 4, 8, 16, 32} THEN {0} ELSE {0, 1}) :
       last' = Call("mpz_sizeinbase", "ok", "none", "none", V(op), 0, base,
                    Len(MagnitudeText(Abs(V(op)), base)) + extra)
  /\ UNCHANGED <<str, ar, own>>

\* ------------------------------------------------------------------------
\* Spec: the variables start uninitialised and the caller makes MaxCalls
\* calls.  SpecCall: one call, made with the variables holding any contents
\* a sequence of earlier calls can leave in them.

\* no chain of arithmetic calls in progress
ArIdle ==
  [law |-> "none", pc |-> 0, a |-> 0, b |-> 0, c |-> 0, t |-> Uninit, u |-> Uninit,
   w |-> Uninit, st |-> "ok", ret |-> 0]

\* the variables of the ownership harness
Objs == {"a", "b", "c"}

\* no sequence of calls on the variables of Objs in progress: z the
\* mpz_struct of each variable, p the limb block its _mp_d points to (0 for
\* none), n the number of calls made, op, x, y the last call and its operands
OwnIdle ==
  [z |-> [o \in Objs |-> Uninit], p |-> [o \in Objs |-> 0], n |-> 0,
   op |-> "none", x |-> "none", y |-> "none"]

StrIdle ==
  [pc |-> "idle", src |-> "none", txt |-> <<>>, base |-> 0, v |-> 0, z |-> Uninit,
   old |-> Uninit, ret |-> 0]

Init ==
  /\ regs = [r \in Regs |-> Uninit]
  /\ last = NoCall
  /\ fuel = MaxCalls
  /\ str = StrIdle
  /\ ar = ArIdle
  /\ own = OwnIdle

MaxLimbs == Len(Limbs(MaxVal))

\* what a variable may hold before the call: nothing, or any value with any
\* space from the limbs it takes up to MaxLimbs
Contents ==
  {Uninit} \cup UNION {{[Store(Uninit, v) EXCEPT !.alloc = a] : a \in LimbsOf(v) .. MaxLimbs} :
                         v \in Values}

InitCall ==
  /\ regs \in [Regs -> Contents]
  /\ last = NoCall
  /\ fuel = 1
  /\ str = StrIdle
  /\ ar = ArIdle
  /\ own = OwnIdle

\* ------------------------------------------------------------------------
\* SpecStr: the conversions applied to every text of up to MaxLen characters
\* and to every value of magnitude up to MaxStrVal.  str holds the caller's
\* text, base and destination: src = "text" starts from a text to parse,
\* src = "value" from a value v to format and parse back.

Alphabet == {" ", "\t", VTab, "-", "0", "1", "7", "a", "B", "x"}

RECURSIVE TextsOfLen(_)
TextsOfLen(k) ==
  IF k = 0 THEN {<<>>}
  ELSE {<<c>> \o t : c \in Alphabet, t \in TextsOfLen(k - 1)}

Texts == UNION {TextsOfLen(k) : k \in 0 .. MaxLen}

ParseBases == {0, 2, 10, 16, 36, 62}

Destinations == {Uninit, Store(Uninit, 5)}

InitStr ==
  /\ regs = [r \in Regs |-> Uninit]
  /\ last = NoCall
  /\ fuel = 0
  /\ ar = ArIdle
  /\ own = OwnIdle
  /\ \/ \E t \in Texts, b \in ParseBases, z \in Destinations :
          str = [pc |-> "parse", src |-> "text", txt |-> t, base |-> b, v |-> 0,
                 z |-> z, old |-> z, ret |-> 0]
     \/ \E v \in (-MaxStrVal) .. MaxStrVal, b \in GetStrBases, z \in Destinations :
          str = [pc |-> "format", src |-> "value", txt |-> <<>>, base |-> b, v |-> v,
                 z |-> z, old |-> z, ret |-> 0]

\* mpz_get_str of the value v into the caller's text
StrGetStr ==
  /\ str.pc = "format"
  /\ str' = [str EXCEPT !.pc = "parse", !.txt = get_str(str.v, str.base)]
  /\ UNCHANGED <<regs, last, fuel, ar, own>>

\* mpz_set_str of the caller's text into an initialised destination, in the
\* base of the text
StrSetStr ==
  /\ str.pc = "parse" /\ str.z.live
  /\ \E r \in set_str(str.z, str.txt, Abs(str.base)) :
       str' = [str EXCEPT !.pc = "set", !.z = r.z, !.ret = r.ret]
  /\ UNCHANGED <<regs, last, fuel, ar, own>>

\* mpz_init_set_str of the caller's text into an uninitialised destination
StrInitSetStr ==
  /\ str.pc = "parse" /\ ~str.z.live
  /\ \E r \in init_set_str(str.txt, Abs(str.base)) :
       str' = [str EXCEPT !.pc = "init_set", !.z = r.z, !.ret = r.ret]
  /\ UNCHANGED <<regs, last, fuel, ar, own>>

NextStr == StrGetStr \/ StrSetStr \/ StrInitSetStr

SpecStr == InitStr /\ [][NextStr]_vars

\* ------------------------------------------------------------------------
\* SpecArith: chains of mpz_add, mpz_sub and mpz_mul calls on the operands
\* a, b and c, each call into a destination of its own.
\*   cancel:   t = a + b, u = t - b
\*   commute:  t = a * b, u = b * a
\*   assoc:    t = a + b, u = t + c, w = b + c, then t = a + w
\* and of mpz_powm against mpz_pow_ui followed by mpz_mod:
\*   powm:     w = a^b mod c, then for b >= 0 and c # 0: t = a^b, u = t mod c
\* and of the root routines on the same operand:
\*   sqrt:     mpz_sqrtrem of a into t and u, then mpz_perfect_square_p of a
\*   root:     mpz_root of a, b into t, then mpz_rootrem of a, b into u and w
\* and single calls of the conversions to machine words on the operand a,
\* which may be too big for a word:
\*   get_ui, get_si, fits_ulong, fits_slong

Operand(v) == Store(Uninit, v)

Fresh == Store(Uninit, 0)

\* operands within and beyond the range of a machine word
ConvValues == (-(2 * WordMod + 1)) .. (2 * WordMod + 1)

InitArith ==
  /\ regs = [r \in Regs |-> Uninit]
  /\ last = NoCall
  /\ fuel = 0
  /\ str = StrIdle
  /\ own = OwnIdle
  /\ \/ \E law \in {"cancel", "commute", "assoc", "powm", "sqrt", "root", "nthroot"},
             a, b, c \in (-MaxVal) .. MaxVal :
          /\ law \in {"cancel", "commute", "root", "nthroot"} => c = 0
          /\ law = "sqrt" => b = 0 /\ c = 0
          /\ law \in {"root", "nthroot"} => b >= 0
          /\ ar = [law |-> law, pc |-> 0, a |-> a, b |-> b, c |-> c,
                   t |-> Uninit, u |-> Uninit, w |-> Uninit, st |-> "ok", ret |-> 0]
     \/ \E a \in {144, 145} :
          ar = [law |-> "sqrt", pc |-> 0, a |-> a, b |-> 0, c |-> 0,
                t |-> Uninit, u |-> Uninit, w |-> Uninit, st |-> "ok", ret |-> 0]
     \/ ar = [law |-> "powm", pc |-> 0, a |-> 4, b |-> 13, c |-> 497,
              t |-> Uninit, u |-> Uninit, w |-> Uninit, st |-> "ok", ret |-> 0]
     \/ \E law \in {"get_ui", "get_si", "fits_ulong", "fits_slong"}, a \in ConvValues :
          ar = [law |-> law, pc |-> 0, a |-> a, b |-> 0, c |-> 0,
                t |-> Uninit, u |-> Uninit, w |-> Uninit, st |-> "ok", ret |-> 0]

ArAdd ==
  /\ \/ /\ ar.law \in {"cancel", "assoc"} /\ ar.pc = 0
        /\ \E z \in add(Fresh, Operand(ar.a), Operand(ar.b)) :
             ar' = [ar EXCEPT !.pc = 1, !.t = z]
     \/ /\ ar.law = "assoc" /\ ar.pc = 1
        /\ \E z \in add(Fresh, ar.t, Operand(ar.c)) :
             ar' = [ar EXCEPT !.pc = 2, !.u = z]
     \/ /\ ar.law = "assoc" /\ ar.pc = 2
        /\ \E z \in add(Fresh, Operand(ar.b), Operand(ar.c)) :
             ar' = [ar EXCEPT !.pc = 3, !.w = z]
     \/ /\ ar.law = "assoc" /\ ar.pc = 3
        /\ \E z \in add(ar.t, Operand(ar.a), ar.w) :
             ar' = [ar EXCEPT !.pc = 4, !.t = z]
  /\ UNCHANGED <<regs, last, fuel, str, own>>

ArSub ==
  /\ ar.law = "cancel" /\ ar.pc = 1
  /\ \E z \in sub(Fresh, ar.t, Operand(ar.b)) : ar' = [ar EXCEPT !.pc = 2, !.u = z]
  /\ UNCHANGED <<regs, last, fuel, str, own>>

ArMul ==
  /\ \/ /\ ar.law = "commute" /\ ar.pc = 0
        /\ \E z \in mul(Fresh, Operand(ar.a), Operand(ar.b)) :
             ar' = [ar EXCEPT !.pc = 1, !.t = z]
     \/ /\ ar.law = "commute" /\ ar.pc = 1
        /\ \E z \in mul(Fresh, Operand(ar.b), Operand(ar.a)) :
             ar' = [ar EXCEPT !.pc = 2, !.u = z]
  /\ UNCHANGED <<regs, last, fuel, str, own>>

\* mpz_powm of a, b, c
ArPowm ==
  /\ ar.law = "powm" /\ ar.pc = 0
  /\ \E r \in powm(ar.a, ar.b, ar.c) :
       IF r.dbz
       THEN ar' = [ar EXCEPT !.pc = 1, !.w = Fresh, !.st = "DivisionByZero"]
       ELSE \E z \in Stored(Fresh, r.v, Max(LimbsOf(ar.a), LimbsOf(ar.c))) :
              ar' = [ar EXCEPT !.pc = 1, !.w = z, !.st = "ok"]
  /\ UNCHANGED <<regs, last, fuel, str, own>>

\* mpz_pow_ui of a, b
ArPowUi ==
  /\ ar.law = "powm" /\ ar.pc = 1 /\ ar.b >= 0
  /\ \E z \in Stored(Fresh, Pow(ar.a, ar.b), PowLimbs(Pow(ar.a, ar.b))) :
       ar' = [ar EXCEPT !.pc = 2, !.t = z]
  /\ UNCHANGED <<regs, last, fuel, str, own>>

\* mpz_mod of the power by c
ArMod ==
  /\ ar.law = "powm" /\ ar.pc = 2 /\ ar.c # 0
  /\ \E z \in Stored(Fresh, Mod(Val(ar.t), ar.c), Max(Len(ar.t.d), LimbsOf(ar.c))) :
       ar' = [ar EXCEPT !.pc = 3, !.u = z]
  /\ UNCHANGED <<regs, last, fuel, str, own>>

\* mpz_sqrtrem of a
ArSqrtrem ==
  /\ ar.law = "sqrt" /\ ar.pc = 0
  /\ LET r == sqrtrem(ar.a)
     IN IF r.fault
        THEN ar' = [ar EXCEPT !.pc = 1, !.st = "Fault", !.t = Fresh, !.u = Fresh]
        ELSE \E z1 \in Stored(Fresh, r.root, LimbsOf(ar.a)),
                z2 \in Stored(Fresh, r.rem, LimbsOf(ar.a)) :
               ar' = [ar EXCEPT !.pc = 1, !.st = "ok", !.t = z1, !.u = z2]
  /\ UNCHANGED <<regs, last, fuel, str, own>>

\* mpz_perfect_square_p of a
ArPerfectSquare ==
  /\ ar.law = "sqrt" /\ ar.pc = 1
  /\ ar' = [ar EXCEPT !.pc = 2, !.ret = perfect_square_p(ar.a)]
  /\ UNCHANGED <<regs, last, fuel, str, own>>

\* mpz_root of a, b
ArRoot ==
  /\ ar.law = "root" /\ ar.pc = 0
  /\ LET r == rootrem(ar.a, ar.b)
     IN IF r.fault
        THEN ar' = [ar EXCEPT !.pc = 1, !.st = "Fault", !.t = Fresh, !.ret = 0]
        ELSE \E z \in Stored(Fresh, r.root, LimbsOf(ar.a)) :
               ar' = [ar EXCEPT !.pc = 1, !.st = "ok", !.t = z,
                                !.ret = (IF r.rem = 0 THEN 1 ELSE 0)]
  /\ UNCHANGED <<regs, last, fuel, str, own>>

\* mpz_nthroot of a, b: the root is stored as by mpz_root; the declaration
\* returns nothing, so no flag is received and ret keeps 0
ArNthroot ==
  /\ ar.law = "nthroot" /\ ar.pc = 0
  /\ LET r == rootrem(ar.a, ar.b)
     IN IF r.fault
        THEN ar' = [ar EXCEPT !.pc = 1, !.st = "Fault", !.t = Fresh]
        ELSE \E z \in Stored(Fresh, r.root, LimbsOf(ar.a)) :
               ar' = [ar EXCEPT !.pc = 1, !.st = "ok", !.t = z]
  /\ UNCHANGED <<regs, last, fuel, str, own>>

\* mpz_rootrem of a, b
ArRootrem ==
  /\ ar.law = "root" /\ ar.pc = 1
  /\ LET r == rootrem(ar.a, ar.b)
     IN IF r.fault
        THEN ar' = [ar EXCEPT !.pc = 2, !.u = Fresh, !.w = Fresh]
        ELSE \E z1 \in Stored(Fresh, r.root, LimbsOf(ar.a)),
                z2 \in Stored(Fresh, r.rem, LimbsOf(ar.a)) :
               ar' = [ar EXCEPT !.pc = 2, !.u = z1, !.w = z2]
  /\ UNCHANGED <<regs, last, fuel, str, own>>

\* mpz_get_ui of a
ArGetUi ==
  /\ ar.law = "get_ui" /\ ar.pc = 0
  /\ ar' = [ar EXCEPT !.pc = 1, !.ret = get_ui(ar.a)]
  /\ UNCHANGED <<regs, last, fuel, str, own>>

\* mpz_get_si of a, received as the c_ulong the declaration returns
ArGetSi ==
  /\ ar.law = "get_si" /\ ar.pc = 0
  /\ ar' = [ar EXCEPT !.pc = 1, !.ret = AsUlong(get_si(ar.a))]
  /\ UNCHANGED <<regs, last, fuel, str, own>>

\* mpz_fits_ulong_p and mpz_fits_slong_p of a
ArFits ==
  /\ ar.law \in {"fits_ulong", "fits_slong"} /\ ar.pc = 0
  /\ ar' = [ar EXCEPT !.pc = 1,
                      !.ret = IF ar.law = "fits_ulong" THEN fits_ulong_p(ar.a)
                              ELSE fits_slong_p(ar.a)]
  /\ UNCHANGED <<regs, last, fuel, str, own>>

NextArith ==
  \/ ArAdd \/ ArSub \/ ArMul
  \/ ArPowm \/ ArPowUi \/ ArMod
  \/ ArSqrtrem \/ ArPerfectSquare \/ ArRoot \/ ArNthroot \/ ArRootrem
  \/ ArGetUi \/ ArGetSi \/ ArFits

SpecArith == InitArith /\ [][NextArith]_vars

\* ------------------------------------------------------------------------
\* SpecOwn: sequences of up to MaxOwnCalls calls of mpz_init, mpz_init_set,
\* mpz_set_si, mpz_set, mpz_add, mpz_swap and mpz_clear on three variables,
\* with the limb block each variable's _mp_d points to.  The allocator hands
\* out a block that is not in use; a block that has to grow may move.

Bufs == 1 .. (Cardinality(Objs) + 1)

FreeBufs == Bufs \ {own.p[o] : o \in Objs}

\* the blocks the variable x may point to once it holds z
Place(x, z) ==
  IF z.alloc = 0 THEN {0}
  ELSE IF own.p[x] = 0 THEN FreeBufs
  ELSE IF z.alloc > own.z[x].alloc THEN {own.p[x]} \cup FreeBufs
  ELSE {own.p[x]}

\* one call that leaves z in the variable x
OwnStore(op, x, y, z) ==
  /\ own.n < MaxOwnCalls
  /\ \E b \in Place(x, z) :
       own' = [z |-> [own.z EXCEPT ![x] = z], p |-> [own.p EXCEPT ![x] = b],
               n |-> own.n + 1, op |-> op, x |-> x, y |-> y]
  /\ UNCHANGED <<regs, last, fuel, str, ar>>

\* the values mpz_set_si stores in SpecOwn
OwnValues == {-6, 0, 3}

OwnInit(x) ==
  /\ ~own.z[x].live
  /\ OwnStore("mpz_init", x, "none", Store(Uninit, 0))

\* rop initialised with limb space and the value of op
init_set(a) ==
  [live |-> TRUE, alloc |-> Max(1, Len(a.d)), size |-> a.size, d |-> a.d]

\* OwnInitSet with rop pointing to the limbs of op
OwnInitSet_Shared(x, y) ==
  /\ own.n < MaxOwnCalls
  /\ ~own.z[x].live /\ own.z[y].live
  /\ own' = [z |-> [own.z EXCEPT ![x] = own.z[y]], p |-> [own.p EXCEPT ![x] = own.p[y]],
             n |-> own.n + 1, op |-> "mpz_init_set", x |-> x, y |-> y]
  /\ UNCHANGED <<regs, last, fuel, str, ar>>

OwnInitSet(x, y) ==
  /\ ~own.z[x].live /\ own.z[y].live
  /\ OwnStore("mpz_init_set", x, y, init_set(own.z[y]))

OwnSetSi(x, v) ==
  /\ own.z[x].live
  /\ OwnStore("mpz_set_si", x, "none", StoreWord(own.z[x], v))

OwnSet(x, y) ==
  /\ own.z[x].live /\ own.z[y].live
  /\ OwnStore("mpz_set", x, y, Assign(own.z[x], own.z[y], Sgn(own.z[y].size)))

\* mpz_add of x and y into x
OwnAdd(x, y) ==
  /\ own.z[x].live /\ own.z[y].live
  /\ \E z \in add(own.z[x], own.z[x], own.z[y]) : OwnStore("mpz_add", x, y, z)

\* the two variables exchange their mpz_struct, the pointer to the limbs
\* with it
OwnSwap(x, y) ==
  /\ own.n < MaxOwnCalls
  /\ own.z[x].live /\ own.z[y].live
  /\ own' = [z |-> [o \in Objs |->
                      IF o = x THEN own.z[y] ELSE IF o = y THEN own.z[x] ELSE own.z[o]],
             p |-> [o \in Objs |->
                      IF o = x THEN own.p[y] ELSE IF o = y THEN own.p[x] ELSE own.p[o]],
             n |-> own.n + 1, op |-> "mpz_swap", x |-> x, y |-> y]
  /\ UNCHANGED <<regs, last, fuel, str, ar>>

\* the space of x is freed
OwnClear(x) ==
  /\ own.z[x].live
  /\ OwnStore("mpz_clear", x, "none", Uninit)

InitOwn ==
  /\ regs = [r \in Regs |-> Uninit]
  /\ last = NoCall
  /\ fuel = 0
  /\ str = StrIdle
  /\ ar = ArIdle
  /\ own = OwnIdle

NextOwn ==
  \/ \E x \in Objs : OwnInit(x)
  \/ \E x, y \in Objs : OwnInitSet(x, y)
  \/ \E x \in Objs, v \in OwnValues : OwnSetSi(x, v)
  \/ \E x, y \in Objs : OwnSet(x, y)
  \/ \E x, y \in Objs : OwnAdd(x, y)
  \/ \E x, y \in Objs : OwnSwap(x, y)
  \/ \E x \in Objs : OwnClear(x)

SpecOwn == InitOwn /\ [][NextOwn]_vars

\* ------------------------------------------------------------------------
\* Assignment from a machine word or a double, and initialisation combined
\* with assignment (not to be used on a variable already initialised).

mpz_set_ui(rop, op) ==
  /\ Spend
  /\ Live(rop)
  /\ op \in Values
  /\ regs' = [regs EXCEPT ![rop] = StoreWord(@, op)]
  /\ last' = Call("mpz_set_ui", "ok", rop, "none", op, 0, 0, 0)
  /\ UNCHANGED <<str, ar, own>>

\* the finite doubles passed: h stands for the double h / 2
Doubles == (-(2 * MaxVal + 1)) .. (2 * MaxVal + 1)

\* the integer part of the double h / 2
Truncate(h) == Sgn(h) * (Abs(h) \div 2)

mpz_set_d(rop, op) ==
  /\ Spend
  /\ Live(rop)
  /\ regs' = [regs EXCEPT ![rop] = Store(@, Truncate(op))]
  /\ last' = Call("mpz_set_d", "ok", rop, "none", op, 2, 0, 0)
  /\ UNCHANGED <<str, ar, own>>

mpz_init_set(rop, op) ==
  /\ Spend
  /\ ~Live(rop) /\ Live(op)
  /\ regs' = [regs EXCEPT ![rop] = init_set(regs[op])]
  /\ last' = Call("mpz_init_set", "ok", rop, "none", V(op), 0, 0, 0)
  /\ UNCHANGED <<str, ar, own>>

mpz_init_set_ui(rop, op) ==
  /\ Spend
  /\ ~Live(rop)
  /\ op \in Values
  /\ regs' = [regs EXCEPT ![rop] = StoreWord(Uninit, op)]
  /\ last' = Call("mpz_init_set_ui", "ok", rop, "none", op, 0, 0, 0)
  /\ UNCHANGED <<str, ar, own>>

\* declared with op: c_ulong; the routine takes a signed long
mpz_init_set_si(rop, op) ==
  /\ Spend
  /\ ~Live(rop)
  /\ AsSigned(op) \in Values
  /\ regs' = [regs EXCEPT ![rop] = StoreWord(Uninit, AsSigned(op))]
  /\ last' = Call("mpz_init_set_si", "ok", rop, "none", AsSigned(op), 0, 0, 0)
  /\ UNCHANGED <<str, ar, own>>

mpz_init_set_d(rop, op) ==
  /\ Spend
  /\ ~Live(rop)
  /\ regs' = [regs EXCEPT ![rop] = Store(Uninit, Truncate(op))]
  /\ last' = Call("mpz_init_set_d", "ok", rop, "none", op, 2, 0, 0)
  /\ UNCHANGED <<str, ar, own>>

\* ------------------------------------------------------------------------
\* Arithmetic with a machine word, and the shift to the left.

\* the words passed: zero, one, the largest limb and the largest word
ArithWords == {0, 1, LimbMod - 1, WordMod - 1}

\* one call storing the value v in rop, room asked for n limbs
WordCall(op, rop, nv, dv, v, n, ret) ==
  /\ \E z \in Stored(regs[rop], v, n) : regs' = [regs EXCEPT ![rop] = z]
  /\ last' = Call(op, "ok", rop, "none", nv, dv, 0, ret)

\* declared -> c_int; the routine returns nothing, so the word received is
\* whatever the register holds
mpz_add_ui(rop, op1, op2) ==
  /\ Spend
  /\ Live(rop) /\ Live(op1)
  /\ \E g \in Garbage :
       WordCall("mpz_add_ui", rop, V(op1), op2, V(op1) + op2, Len(regs[op1].d), g)
  /\ UNCHANGED <<str, ar, own>>

mpz_sub_ui(rop, op1, op2) ==
  /\ Spend
  /\ Live(rop) /\ Live(op1)
  /\ WordCall("mpz_sub_ui", rop, V(op1), op2, V(op1) - op2, Len(regs[op1].d), 0)
  /\ UNCHANGED <<str, ar, own>>

mpz_ui_sub(rop, op1, op2) ==
  /\ Spend
  /\ Live(rop) /\ Live(op2)
  /\ WordCall("mpz_ui_sub", rop, op1, V(op2), op1 - V(op2), Len(regs[op2].d), 0)
  /\ UNCHANGED <<str, ar, own>>

mpz_mul_si(rop, op1, op2) ==
  /\ Spend
  /\ Live(rop) /\ Live(op1)
  /\ WordCall("mpz_mul_si", rop, V(op1), op2, V(op1) * op2, Len(regs[op1].d), 0)
  /\ UNCHANGED <<str, ar, own>>

mpz_mul_ui(rop, op1, op2) ==
  /\ Spend
  /\ Live(rop) /\ Live(op1)
  /\ WordCall("mpz_mul_ui", rop, V(op1), op2, V(op1) * op2, Len(regs[op1].d), 0)
  /\ UNCHANGED <<str, ar, own>>

\* a left shift by op2 bits
mpz_mul_2exp(rop, op1, op2) ==
  /\ Spend
  /\ Live(rop) /\ Live(op1)
  /\ WordCall("mpz_mul_2exp", rop, V(op1), op2, V(op1) * Pow(2, op2), Len(regs[op1].d), 0)
  /\ UNCHANGED <<str, ar, own>>

\* ------------------------------------------------------------------------
\* The exponent of the conversion to a double.

\* the number of bits of the magnitude m
RECURSIVE BitLen(_)
BitLen(m) == IF m = 0 THEN 0 ELSE 1 + BitLen(m \div 2)

\* exp is declared mpz_ptr; the routine takes the address of a signed long
\* and stores the exponent there, the number of bits of |op| ("0 is stored
\* to *exp" for zero).  The long lies over the first two fields of the
\* mpz_struct of exp (src/src/ctype.rs:11-15): _mp_alloc becomes the
\* exponent and _mp_size 0, the limbs in use none, whatever space the
\* variable had.  The double is returned to a declaration that takes none.
get_d_2exp(z, e) == [live |-> TRUE, alloc |-> e, size |-> 0, d |-> <<>>]

mpz_get_d_2exp(exp, op) ==
  /\ Spend
  /\ Live(exp) /\ Live(op)
  /\ regs' = [regs EXCEPT ![exp] = get_d_2exp(@, BitLen(Abs(V(op))))]
  /\ last' = Call("mpz_get_d_2exp", "ok", exp, "none", V(op), 0, 0, 0)
  /\ UNCHANGED <<str, ar, own>>

\* ------------------------------------------------------------------------
\* Comparison with a machine word or a double, and the fits predicates of
\* the narrower words.  The operand is only read.

\* widths of c_int and c_short, scaled down with the word
IntBits == WordBits \div 2

ShortBits == WordBits \div 4

fits_unsigned_p(op, b) == IF 0 <= op /\ op <= Pow(2, b) - 1 THEN 1 ELSE 0

fits_signed_p(op, b) == IF -Pow(2, b - 1) <= op /\ op <= Pow(2, b - 1) - 1 THEN 1 ELSE 0

mpz_fits_uint_p(op) ==
  /\ Spend
  /\ Live(op)
  /\ regs' = regs
  /\ last' = Call("mpz_fits_uint_p", "ok", "none", "none", V(op), 0, 0,
                  fits_unsigned_p(V(op), IntBits))
  /\ UNCHANGED <<str, ar, own>>

mpz_fits_sint_p(op) ==
  /\ Spend
  /\ Live(op)
  /\ regs' = regs
  /\ last' = Call("mpz_fits_sint_p", "ok", "none", "none", V(op), 0, 0,
                  fits_signed_p(V(op), IntBits))
  /\ UNCHANGED <<str, ar, own>>

mpz_fits_ushort_p(op) ==
  /\ Spend
  /\ Live(op)
  /\ regs' = regs
  /\ last' = Call("mpz_fits_ushort_p", "ok", "none", "none", V(op), 0, 0,
                  fits_unsigned_p(V(op), ShortBits))
  /\ UNCHANGED <<str, ar, own>>

mpz_fits_sshort_p(op) ==
  /\ Spend
  /\ Live(op)
  /\ regs' = regs
  /\ last' = Call("mpz_fits_sshort_p", "ok", "none", "none", V(op), 0, 0,
                  fits_signed_p(V(op), ShortBits))
  /\ UNCHANGED <<str, ar, own>>

\* the signed words passed: those of one limb, a word being one limb of the
\* library
LimbWords == (-(LimbMod - 1)) .. (LimbMod - 1)

\* the signed limb counts are compared first: their difference is returned
\* when they differ, and -1, 0 or 1 otherwise
cmp_si(a, v) == IF a.size # Sgn(v) THEN a.size - Sgn(v) ELSE Sgn(Val(a) - v)

mpz_cmp_si(op1, op2) ==
  /\ Spend
  /\ Live(op1)
  /\ regs' = regs
  /\ last' = Call("mpz_cmp_si", "ok", "none", "none", V(op1), op2, 0, cmp_si(regs[op1], op2))
  /\ UNCHANGED <<str, ar, own>>

mpz_cmp_ui(op1, op2) ==
  /\ Spend
  /\ Live(op1)
  /\ regs' = regs
  /\ last' = Call("mpz_cmp_ui", "ok", "none", "none", V(op1), op2, 0, Sgn(V(op1) - op2))
  /\ UNCHANGED <<str, ar, own>>

mpz_cmpabs_ui(op1, op2) ==
  /\ Spend
  /\ Live(op1)
  /\ regs' = regs
  /\ last' = Call("mpz_cmpabs_ui", "ok", "none", "none", V(op1), op2, 0,
                  Sgn(Abs(V(op1)) - op2))
  /\ UNCHANGED <<str, ar, own>>

\* op2 stands for the double op2 / 2
mpz_cmp_d(op1, op2) ==
  /\ Spend
  /\ Live(op1)
  /\ regs' = regs
  /\ last' = Call("mpz_cmp_d", "ok", "none", "none", V(op1), op2, 2, Sgn(2 * V(op1) - op2))
  /\ UNCHANGED <<str, ar, own>>

mpz_cmpabs_d(op1, op2) ==
  /\ Spend
  /\ Live(op1)
  /\ regs' = regs
  /\ last' = Call("mpz_cmpabs_d", "ok", "none", "none", V(op1), op2, 2,
                  Sgn(2 * Abs(V(op1)) - Abs(op2)))
  /\ UNCHANGED <<str, ar, own>>

\* One call of any routine on any operands, while calls remain to be made.
Next ==
  \/ fuel > 0 /\ \E x \in Regs : mpz_init(x)
  \/ fuel > 0 /\ \E x \in Regs : mpz_clear(x)
  \/ fuel > 0 /\ \E rop \in Regs, op \in Ulong : mpz_set_si(rop, op)
  \/ fuel > 0 /\ \E rop, n \in Regs, d \in DivWords : mpz_cdiv_q(rop, n, d)
  \/ fuel > 0 /\ \E rop, n \in Regs, d \in DivWords : mpz_cdiv_r(rop, n, d)
  \/ fuel > 0 /\ \E rop, r, n \in Regs, d \in DivWords : mpz_cdiv_qr(rop, r, n, d)
  \/ fuel > 0 /\ \E rop, n, d \in Regs : mpz_fdiv_q(rop, n, d)
  \/ fuel > 0 /\ \E rop, n, d \in Regs : mpz_fdiv_r(rop, n, d)
  \/ fuel > 0 /\ \E rop, r, n, d \in Regs : mpz_fdiv_qr(rop, r, n, d)
  \/ fuel > 0 /\ \E rop, n, d \in Regs : mpz_tdiv_q(rop, n, d)
  \/ fuel > 0 /\ \E rop, n, d \in Regs : mpz_tdiv_r(rop, n, d)
  \/ fuel > 0 /\ \E rop, r, n, d \in Regs : mpz_tdiv_qr(rop, r, n, d)
  \/ fuel > 0 /\ \E r, n, d \in Regs : mpz_mod(r, n, d)
  \/ fuel > 0 /\ \E r, n, d \in Regs : mpz_mod_ui(r, n, d)
  \/ fuel > 0 /\ \E q, n, d \in Regs : mpz_divexact(q, n, d)
  \/ fuel > 0 /\ \E q, n \in Regs, d \in DivWords : mpz_divexact_ui(q, n, d)
  \/ fuel > 0 /\ \E rop, n \in Regs, d \in DivWords : mpz_cdiv_q_ui(rop, n, d)
  \/ fuel > 0 /\ \E rop, n \in Regs, d \in DivWords : mpz_cdiv_r_ui(rop, n, d)
  \/ fuel > 0 /\ \E rop, r, n \in Regs, d \in DivWords : mpz_cdiv_qr_ui(rop, r, n, d)
  \/ fuel > 0 /\ \E rop \in Regs, d \in DivWords : mpz_cdiv_ui(rop, d)
  \/ fuel > 0 /\ \E rop, n \in Regs, d \in DivWords : mpz_fdiv_q_ui(rop, n, d)
  \/ fuel > 0 /\ \E rop, n \in Regs, d \in DivWords : mpz_fdiv_r_ui(rop, n, d)
  \/ fuel > 0 /\ \E rop, r, n \in Regs, d \in DivWords : mpz_fdiv_qr_ui(rop, r, n, d)
  \/ fuel > 0 /\ \E rop \in Regs, d \in DivWords : mpz_fdiv_ui(rop, d)
  \/ fuel > 0 /\ \E rop, n \in Regs, d \in DivWords : mpz_tdiv_q_ui(rop, n, d)
  \/ fuel > 0 /\ \E rop, n \in Regs, d \in DivWords : mpz_tdiv_r_ui(rop, n, d)
  \/ fuel > 0 /\ \E rop, r, n \in Regs, d \in DivWords : mpz_tdiv_qr_ui(rop, r, n, d)
  \/ fuel > 0 /\ \E rop \in Regs, d \in DivWords : mpz_tdiv_ui(rop, d)
  \/ fuel > 0 /\ \E n, d \in Regs : mpz_divisible_p(n, d)
  \/ fuel > 0 /\ \E n, c, d \in Regs : mpz_congruent_p(n, c, d)
  \/ fuel > 0 /\ \E rop, base, exp, m \in Regs : mpz_powm(rop, base, exp, m)
  \/ fuel > 0 /\ \E rop, base, m \in Regs, exp \in DivWords : mpz_powm_ui(rop, base, exp, m)
  \/ fuel > 0 /\ \E rop \in Regs, s \in SampleTexts, base \in SampleBases : mpz_set_str(rop, s, base)
  \/ fuel > 0 /\ \E rop \in Regs, s \in SampleTexts, base \in SampleBases : mpz_init_set_str(rop, s, base)
  \/ fuel > 0 /\ \E op \in Regs, base \in {2, 10, -16} : mpz_get_str(base, op)
  \/ fuel > 0 /\ \E rop, n \in Regs, b \in BitCounts : mpz_cdiv_q_2exp(rop, n, b)
  \/ fuel > 0 /\ \E rop, n \in Regs, b \in BitCounts : mpz_cdiv_r_2exp(rop, n, b)
  \/ fuel > 0 /\ \E rop, n \in Regs, b \in BitCounts : mpz_fdiv_q_2exp(rop, n, b)
  \/ fuel > 0 /\ \E rop, n \in Regs, b \in BitCounts : mpz_fdiv_r_2exp(rop, n, b)
  \/ fuel > 0 /\ \E q, n \in Regs, b \in BitCounts : mpz_tdiv_q_2exp(q, n, b)
  \/ fuel > 0 /\ \E r, n \in Regs, b \in BitCounts : mpz_tdiv_r_2exp(r, n, b)
  \/ fuel > 0 /\ \E rop, op1, op2 \in Regs : mpz_add(rop, op1, op2)
  \/ fuel > 0 /\ \E rop, op1, op2 \in Regs : mpz_sub(rop, op1, op2)
  \/ fuel > 0 /\ \E rop, op1, op2 \in Regs : mpz_mul(rop, op1, op2)
  \/ fuel > 0 /\ \E rop, base \in Regs, exp \in DivWords : mpz_pow_ui(rop, base, exp)
  \/ fuel > 0 /\ \E rop \in Regs, base \in DivWords, exp \in DivWords : mpz_ui_pow_ui(rop, base, exp)
  \/ fuel > 0 /\ \E rop, op \in Regs, n \in DivWords : mpz_nthroot(rop, op, n)
  \/ fuel > 0 /\ \E rop, op \in Regs, n \in DivWords : mpz_root(rop, op, n)
  \/ fuel > 0 /\ \E rop, rem, u \in Regs, n \in DivWords : mpz_rootrem(rop, rem, u, n)
  \/ fuel > 0 /\ \E rop, op \in Regs : mpz_sqrt(rop, op)
  \/ fuel > 0 /\ \E rop1, rop2, op \in Regs : mpz_sqrtrem(rop1, rop2, op)
  \/ fuel > 0 /\ \E op \in Regs : mpz_perfect_square_p(op)
  \/ fuel > 0 /\ \E rop, op1, op2 \in Regs : mpz_and(rop, op1, op2)
  \/ fuel > 0 /\ \E rop, op1, op2 \in Regs : mpz_ior(rop, op1, op2)
  \/ fuel > 0 /\ \E rop, op1, op2 \in Regs : mpz_xor(rop, op1, op2)
  \/ fuel > 0 /\ \E rop, op \in Regs : mpz_com(rop, op)
  \/ fuel > 0 /\ \E rop \in Regs : mpz_popcount(rop)
  \/ fuel > 0 /\ \E op1, op2 \in Regs : mpz_hamdist(op1, op2)
  \/ fuel > 0 /\ \E op \in Regs, starting_bit \in BitCounts : mpz_scan0(op, starting_bit)
  \/ fuel > 0 /\ \E op \in Regs, starting_bit \in BitCounts : mpz_scan1(op, starting_bit)
  \/ fuel > 0 /\ \E rop \in Regs, bit_index \in BitIndices : mpz_setbit(rop, bit_index)
  \/ fuel > 0 /\ \E rop \in Regs, bit_index \in BitIndices : mpz_clrbit(rop, bit_index)
  \/ fuel > 0 /\ \E rop \in Regs, bit_index \in BitIndices : mpz_combit(rop, bit_index)
  \/ fuel > 0 /\ \E op \in Regs, starting_bit \in BitIndices : mpz_tstbit(op, starting_bit)
  \/ fuel > 0 /\ \E op \in Regs : mpz_get_ui(op)
  \/ fuel > 0 /\ \E op \in Regs : mpz_get_si(op)
  \/ fuel > 0 /\ \E op \in Regs : mpz_fits_ulong_p(op)
  \/ fuel > 0 /\ \E op \in Regs : mpz_fits_slong_p(op)
  \/ fuel > 0 /\ \E rop, op \in Regs : mpz_set(rop, op)
  \/ fuel > 0 /\ \E rop, op \in Regs : mpz_neg(rop, op)
  \/ fuel > 0 /\ \E rop, op \in Regs : mpz_abs(rop, op)
  \/ fuel > 0 /\ \E rop1, rop2 \in Regs : mpz_swap(rop1, rop2)
  \/ fuel > 0 /\ \E x \in Regs, n \in BitCounts : mpz_init2(x, n)
  \/ fuel > 0 /\ \E x \in Regs, n \in BitCounts : mpz_realloc2(x, n)
  \/ fuel > 0 /\ \E rop, op1, op2 \in Regs : mpz_addmul(rop, op1, op2)
  \/ fuel > 0 /\ \E rop, op1 \in Regs, op2 \in DivWords : mpz_addmul_ui(rop, op1, op2)
  \/ fuel > 0 /\ \E rop, op1, op2 \in Regs : mpz_submul(rop, op1, op2)
  \/ fuel > 0 /\ \E rop, op1 \in Regs, op2 \in DivWords : mpz_submul_ui(rop, op1, op2)
  \/ fuel > 0 /\ \E op1, op2 \in Regs : mpz_cmp(op1, op2)
  \/ fuel > 0 /\ \E op1, op2 \in Regs : mpz_cmpabs(op1, op2)
  \/ fuel > 0 /\ \E op1 \in Regs : mpz_sgn(op1)
  \/ fuel > 0 /\ \E op \in Regs, base \in {2, 10} : mpz_sizeinbase(op, base)
  \/ fuel > 0 /\ \E rop \in Regs, op \in Ulong : mpz_set_ui(rop, op)
  \/ fuel > 0 /\ \E rop \in Regs, op \in Doubles : mpz_set_d(rop, op)
  \/ fuel > 0 /\ \E rop, op \in Regs : mpz_init_set(rop, op)
  \/ fuel > 0 /\ \E rop \in Regs, op \in Ulong : mpz_init_set_ui(rop, op)
  \/ fuel > 0 /\ \E rop \in Regs, op \in Ulong : mpz_init_set_si(rop, op)
  \/ fuel > 0 /\ \E rop \in Regs, op \in Doubles : mpz_init_set_d(rop, op)
  \/ fuel > 0 /\ \E rop, op1 \in Regs, op2 \in ArithWords : mpz_add_ui(rop, op1, op2)
  \/ fuel > 0 /\ \E rop, op1 \in Regs, op2 \in ArithWords : mpz_sub_ui(rop, op1, op2)
  \/ fuel > 0 /\ \E rop, op2 \in Regs, op1 \in ArithWords : mpz_ui_sub(rop, op1, op2)
  \/ fuel > 0 /\ \E rop, op1 \in Regs, op2 \in LimbWords : mpz_mul_si(rop, op1, op2)
  \/ fuel > 0 /\ \E rop, op1 \in Regs, op2 \in ArithWords : mpz_mul_ui(rop, op1, op2)
  \/ fuel > 0 /\ \E rop, op1 \in Regs, op2 \in BitCounts : mpz_mul_2exp(rop, op1, op2)
  \/ fuel > 0 /\ \E exp, op \in Regs : mpz_get_d_2exp(exp, op)
  \/ fuel > 0 /\ \E op \in Regs : mpz_fits_uint_p(op)
  \/ fuel > 0 /\ \E op \in Regs : mpz_fits_sint_p(op)
  \/ fuel > 0 /\ \E op \in Regs : mpz_fits_ushort_p(op)
  \/ fuel > 0 /\ \E op \in Regs : mpz_fits_sshort_p(op)
  \/ fuel > 0 /\ \E op1 \in Regs, op2 \in LimbWords : mpz_cmp_si(op1, op2)
  \/ fuel > 0 /\ \E op1 \in Regs, op2 \in ArithWords : mpz_cmp_ui(op1, op2)
  \/ fuel > 0 /\ \E op1 \in Regs, op2 \in ArithWords : mpz_cmpabs_ui(op1, op2)
  \/ fuel > 0 /\ \E op1 \in Regs, op2 \in Doubles : mpz_cmp_d(op1, op2)
  \/ fuel > 0 /\ \E op1 \in Regs, op2 \in Doubles : mpz_cmpabs_d(op1, op2)

Spec == Init /\ [][Next]_vars

SpecCall == InitCall /\ [][Next]_vars

\* ------------------------------------------------------------------------
\* The claims.  A call is described by last: the routine, the values its
\* operands had (nv the dividend, dv the divisor argument as the caller
\* passed it, cv a third operand) and where the results went.

\* the quotients the bounded operands can have
QRange == (-(2 * MaxVal + 1)) .. (2 * MaxVal + 1)

Quot == V(last.rop)

Rem == V(last.rrem)

IsFloor(q, n, d) ==
  IF d > 0 THEN q * d <= n /\ n < (q + 1) * d ELSE q * d >= n /\ n > (q + 1) * d

IsCeil(q, n, d) ==
  IF d > 0 THEN (q - 1) * d < n /\ n <= q * d ELSE (q - 1) * d > n /\ n >= q * d

IsTrunc(q, n, d) ==
  /\ Abs(q) * Abs(d) <= Abs(n) /\ Abs(n) < (Abs(q) + 1) * Abs(d)
  /\ q = 0 \/ Sgn(q) = Sgn(n) * Sgn(d)

CombinedOps == {"mpz_cdiv_qr", "mpz_fdiv_qr", "mpz_tdiv_qr"}

CeilOps == {"mpz_cdiv_q", "mpz_cdiv_r", "mpz_cdiv_qr"}

FloorOps == {"mpz_fdiv_q", "mpz_fdiv_r", "mpz_fdiv_qr"}

TruncOps == {"mpz_tdiv_q", "mpz_tdiv_r", "mpz_tdiv_qr"}

\* C1: for every n and every non-zero d, each of the three combined
\* quotient-and-remainder routines completes and leaves q and r with
\* n = q*d + r and |r| < |d|.
C1_CombinedDivision ==
  (last.op \in CombinedOps /\ last.dv # 0) =>
    /\ last.status = "ok"
    /\ last.nv = Quot * last.dv + Rem
    /\ Abs(Rem) < Abs(last.dv)

\* C2: floor division by any non-zero d of either sign completes, rounds the
\* quotient towards minus infinity and leaves a remainder that is zero or has
\* the sign of d; -7 by 2 gives quotient -4 and remainder 1.
C2_FloorDivision ==
  (last.op \in FloorOps /\ last.dv # 0) =>
    /\ last.status = "ok"
    /\ last.rop # "none" => IsFloor(Quot, last.nv, last.dv)
    /\ last.rrem # "none" =>
         /\ Rem = 0 \/ Sgn(Rem) = Sgn(last.dv)
         /\ \E q \in QRange : IsFloor(q, last.nv, last.dv) /\ Rem = last.nv - q * last.dv
    /\ (last.rop # "none" /\ last.rrem # "none") => last.nv = Quot * last.dv + Rem
    /\ (last.nv = -7 /\ last.dv = 2) =>
         /\ last.rop # "none" => Quot = -4
         /\ last.rrem # "none" => Rem = 1

\* C2 witness: mpz_fdiv_qr of -7 by 2 has left -4 and 1
C2_Witness ==
  /\ last.op = "mpz_fdiv_qr" /\ last.status = "ok"
  /\ last.nv = -7 /\ last.dv = 2
  /\ Quot = -4 /\ Rem = 1

\* C3: ceiling division by any non-zero divisor d of either sign completes,
\* rounds the quotient towards plus infinity and leaves a remainder that is
\* zero or has the sign opposite to d.
C3_CeilingDivision ==
  (last.op \in CeilOps /\ last.dv # 0) =>
    /\ last.status = "ok"
    /\ last.rop # "none" => IsCeil(Quot, last.nv, last.dv)
    /\ last.rrem # "none" =>
         /\ Rem = 0 \/ Sgn(Rem) = -Sgn(last.dv)
         /\ \E q \in QRange : IsCeil(q, last.nv, last.dv) /\ Rem = last.nv - q * last.dv

\* C4: truncating division by any non-zero d completes, rounds the quotient
\* towards zero and leaves a remainder that is zero or has the sign of n,
\* whatever the sign of d; the combined routine stores that remainder in its
\* remainder destination.
C4_TruncatingDivision ==
  (last.op \in TruncOps /\ last.dv # 0) =>
    /\ last.status = "ok"
    /\ last.rop # "none" => IsTrunc(Quot, last.nv, last.dv)
    /\ last.rrem # "none" =>
         /\ Rem = 0 \/ Sgn(Rem) = Sgn(last.nv)
         /\ \E q \in QRange : IsTrunc(q, last.nv, last.dv) /\ Rem = last.nv - q * last.dv
    /\ (last.rop # "none" /\ last.rrem # "none") => Rem = last.nv - Quot * last.dv

\* C4 witness: mpz_tdiv_qr of -7 by -2 has left 3 and the remainder -1,
\* which has the sign of the dividend
C4_Witness ==
  /\ last.op = "mpz_tdiv_qr" /\ last.status = "ok"
  /\ last.nv = -7 /\ last.dv = -2
  /\ Quot = 3 /\ Rem = -1

DivisionOps ==
  CeilOps \cup FloorOps \cup TruncOps \cup
  {"mpz_cdiv_q_ui", "mpz_cdiv_r_ui", "mpz_cdiv_qr_ui", "mpz_cdiv_ui",
   "mpz_fdiv_q_ui", "mpz_fdiv_r_ui", "mpz_fdiv_qr_ui", "mpz_fdiv_ui",
   "mpz_tdiv_q_ui", "mpz_tdiv_r_ui", "mpz_tdiv_qr_ui", "mpz_tdiv_ui",
   "mpz_mod", "mpz_mod_ui", "mpz_divexact", "mpz_divexact_ui",
   "mpz_powm", "mpz_powm_ui"}

PredicateOps == {"mpz_divisible_p", "mpz_congruent_p"}

\* C5: every quotient, remainder, combined, mod, exact-division and
\* modular-power routine called with a zero divisor or modulus fails with
\* DivisionByZero; the divisibility and congruence predicates accept it.
C5_ZeroDivisor ==
  /\ (last.op \in DivisionOps /\ last.dv = 0) => last.status = "DivisionByZero"
  /\ last.op \in PredicateOps => last.status = "ok"

Failed(l) == l.status \in {"ParseError", "DivisionByZero"}

\* C6: a call that fails with ParseError or DivisionByZero changes nothing:
\* every variable that held a value before the call, the destination
\* included, holds exactly that value after it.
C6_FailureKeepsValues ==
  [][Failed(last') => \A r \in Regs : Live(r) => regs'[r] = regs[r]]_vars

\* C6 witness: mpz_set_str has failed on a destination that holds 5
C6_Witness ==
  /\ last.op = "mpz_set_str" /\ last.status = "ParseError"
  /\ V(last.rop) = 5

\* the text without its white space
NoBlanks(t) == SelectSeq(t, LAMBDA c : ~IsSpace(c))

\* the text without a leading minus sign
Unsigned(t) == IF Len(t) > 0 /\ t[1] = "-" THEN SubSeq(t, 2, Len(t)) ELSE t

\* the characters that are digits of a base
DigitsOf(b) ==
  IF b <= 36 THEN {Digits[k] : k \in 1 .. b} \cup {Digits[k + 26] : k \in 11 .. b}
  ELSE {Digits[k] : k \in 1 .. b}

\* a variable holding a value: initialised, the limbs in use within the
\* allocation, no most significant zero limb
Valid(z) ==
  /\ z.live /\ Len(z.d) = Abs(z.size) /\ Len(z.d) <= z.alloc
  /\ z.d # <<>> => z.d[Len(z.d)] # 0

\* C7: parsing fails exactly when the text, without white space and an
\* optional leading minus sign, has no digit or has a character that is no
\* digit of the resolved base; after a failure the destination is a valid
\* value: zero for mpz_init_set_str, the prior value or zero for mpz_set_str.
C7_ParseFailure ==
  (str.src = "text" /\ str.pc \in {"set", "init_set"}) =>
    LET rb == ResolveBase(Unsigned(NoBlanks(str.txt)), str.base)
    IN /\ str.ret \in {0, -1}
       /\ str.ret = -1 <=>
            \/ rb.body = <<>>
            \/ \E i \in 1 .. Len(rb.body) : rb.body[i] \notin DigitsOf(rb.base)
       /\ (str.ret = -1 /\ str.pc = "init_set") =>
            Valid(str.z) /\ Val(str.z) = 0 /\ str.z.size = 0
       /\ (str.ret = -1 /\ str.pc = "set") =>
            Valid(str.z) /\ (Val(str.z) = Val(str.old) \/ Val(str.z) = 0)

\* C7 witness: mpz_init_set_str of "-7x" in base 10 has failed and left zero
C7_Witness ==
  /\ str.src = "text" /\ str.pc = "init_set" /\ str.ret = -1
  /\ str.txt = <<"-", "7", "x">> /\ str.base = 10
  /\ str.z.live /\ Val(str.z) = 0

\* C8: for every value v and every base in 2..36, parsing the text that
\* mpz_get_str gives for v, in the same base, succeeds and gives v.
C8_RoundTrip ==
  (str.src = "value" /\ str.pc \in {"set", "init_set"} /\ str.base \in 2 .. 36) =>
    str.ret = 0 /\ Val(str.z) = str.v

\* C8 witness: -35 was written in base 36 as "-z" and read back as -35
C8_Witness ==
  /\ str.src = "value" /\ str.pc = "set" /\ str.base = 36 /\ str.v = -35
  /\ str.txt = <<"-", "z">> /\ str.ret = 0 /\ Val(str.z) = -35

\* C9: mpz_divisible_p and mpz_congruent_p never fail; with d = 0 they hold
\* exactly when n = 0, respectively n = c; with d # 0 exactly when some
\* integer q has n = q*d, respectively n = c + q*d.
C9_Predicates ==
  /\ last.op = "mpz_divisible_p" =>
       /\ last.status = "ok"
       /\ last.ret # 0 <=>
            IF last.dv = 0 THEN last.nv = 0
            ELSE \E q \in QRange : last.nv = q * last.dv
  /\ last.op = "mpz_congruent_p" =>
       /\ last.status = "ok"
       /\ last.ret # 0 <=>
            IF last.dv = 0 THEN last.nv = last.cv
            ELSE \E q \in QRange : last.nv = last.cv + q * last.dv

\* C9 witness: mpz_congruent_p has found 3 congruent to 3 modulo 0
C9_Witness ==
  /\ last.op = "mpz_congruent_p" /\ last.status = "ok"
  /\ last.dv = 0 /\ last.nv = 3 /\ last.cv = 3 /\ last.ret # 0

\* C10: for every n and every non-zero d of either sign mpz_mod leaves r with
\* 0 <= r < |d| and n - r a multiple of |d|: the floor remainder of n by |d|.
C10_Mod ==
  (last.op = "mpz_mod" /\ last.dv # 0) =>
    /\ last.status = "ok"
    /\ 0 <= Rem /\ Rem < Abs(last.dv)
    /\ \E q \in QRange : last.nv - Rem = q * Abs(last.dv)
    /\ Rem = last.nv - Abs(last.dv) * (last.nv \div Abs(last.dv))

\* C10 witness: mpz_mod of -7 by -2 has left 1
C10_Witness ==
  /\ last.op = "mpz_mod" /\ last.status = "ok"
  /\ last.nv = -7 /\ last.dv = -2 /\ Rem = 1

UiCeilOps == {"mpz_cdiv_q_ui", "mpz_cdiv_r_ui", "mpz_cdiv_qr_ui", "mpz_cdiv_ui"}

UiFloorOps == {"mpz_fdiv_q_ui", "mpz_fdiv_r_ui", "mpz_fdiv_qr_ui", "mpz_fdiv_ui"}

UiTruncOps == {"mpz_tdiv_q_ui", "mpz_tdiv_r_ui", "mpz_tdiv_qr_ui", "mpz_tdiv_ui"}

\* r is the remainder of n by d in the rounding mode of the routine op
IsModeRem(op, r, n, d) ==
  /\ Abs(r) < Abs(d)
  /\ \E q \in QRange : n = q * d + r
  /\ op \in UiCeilOps => r <= 0
  /\ op \in UiFloorOps => r >= 0
  /\ op \in UiTruncOps => (r = 0 \/ Sgn(r) = Sgn(n))

\* C11: for every n and every non-zero word d, a division with a word
\* divisor completes and returns |r|, r the remainder of its rounding mode
\* (r <= 0 for ceiling, r >= 0 for floor, the sign of n for truncating); a
\* routine that stores a remainder stores the signed r.
C11_ReturnedRemainder ==
  (last.op \in UiCeilOps \cup UiFloorOps \cup UiTruncOps /\ last.dv # 0) =>
    /\ last.status = "ok"
    /\ last.ret \in Ulong
    /\ \E r \in (-MaxVal) .. MaxVal :
         /\ IsModeRem(last.op, r, last.nv, last.dv)
         /\ last.ret = Abs(r)
         /\ last.rrem # "none" => Rem = r

\* C11 witness: mpz_cdiv_qr_ui of 7 by 2 has stored -1 and returned 1
C11_Witness ==
  /\ last.op = "mpz_cdiv_qr_ui" /\ last.status = "ok"
  /\ last.nv = 7 /\ last.dv = 2 /\ Quot = 4 /\ Rem = -1 /\ last.ret = 1

\* C12: for every n of either sign and every bit count b, each routine
\* dividing by 2^b gives the quotient, respectively the remainder, of the
\* general division of its rounding mode by 2^b; the floor quotient is
\* floor(n / 2^b), the truncating quotient is sign(n) * (|n| \div 2^b), and
\* for n >= 0 the floor quotient is that same shift of n.
C12_PowerOfTwoDivision ==
  LET n == last.nv
      d == last.dv
  IN /\ last.op \in {"mpz_cdiv_q_2exp", "mpz_cdiv_r_2exp", "mpz_fdiv_q_2exp",
                     "mpz_fdiv_r_2exp", "mpz_tdiv_q_2exp", "mpz_tdiv_r_2exp"} =>
          last.status = "ok" /\ d = Pow(2, last.cv)
     /\ last.op = "mpz_fdiv_q_2exp" =>
          /\ IsFloor(Quot, n, d) /\ Quot = FDivQ(n, d)
          /\ n >= 0 => Quot = n \div d
     /\ last.op = "mpz_tdiv_q_2exp" =>
          /\ IsTrunc(Quot, n, d) /\ Quot = TDivQ(n, d)
          /\ Quot = Sgn(n) * (Abs(n) \div d)
     /\ last.op = "mpz_cdiv_q_2exp" => IsCeil(Quot, n, d) /\ Quot = CDivQ(n, d)
     /\ last.op = "mpz_fdiv_r_2exp" =>
          Rem = FDivR(n, d) /\ 0 <= Rem /\ Rem < d /\ (n - Rem) % d = 0
     /\ last.op = "mpz_tdiv_r_2exp" =>
          Rem = TDivR(n, d) /\ Abs(Rem) < d /\ (n - Rem) % d = 0
          /\ (Rem = 0 \/ Sgn(Rem) = Sgn(n))
     /\ last.op = "mpz_cdiv_r_2exp" =>
          Rem = CDivR(n, d) /\ Rem <= 0 /\ -Rem < d /\ (n - Rem) % d = 0

\* C12 witness: mpz_fdiv_q_2exp of -7 by 2^1 has stored -4
C12_Witness ==
  /\ last.op = "mpz_fdiv_q_2exp" /\ last.status = "ok"
  /\ last.nv = -7 /\ last.cv = 1 /\ last.dv = 2 /\ Quot = -4

\* C13: mpz_add, mpz_sub and mpz_mul are exact for every sign combination
\* and every limb count, and leave a valid value; so (a + b) - b = a,
\* a * b = b * a and (a + b) + c = a + (b + c).
C13_ExactArithmetic ==
  /\ (ar.law = "cancel" /\ ar.pc >= 1) => Valid(ar.t) /\ Val(ar.t) = ar.a + ar.b
  /\ (ar.law = "cancel" /\ ar.pc = 2) =>
       /\ Valid(ar.u) /\ Val(ar.u) = ar.a
       /\ ar.u.size = Operand(ar.a).size /\ ar.u.d = Operand(ar.a).d
  /\ (ar.law = "commute" /\ ar.pc >= 1) => Valid(ar.t) /\ Val(ar.t) = ar.a * ar.b
  /\ (ar.law = "commute" /\ ar.pc = 2) => Valid(ar.u) /\ Val(ar.u) = Val(ar.t)
  /\ (ar.law = "assoc" /\ ar.pc = 4) =>
       /\ Valid(ar.u) /\ Valid(ar.t) /\ Val(ar.u) = Val(ar.t)
       /\ Val(ar.u) = ar.a + ar.b + ar.c

\* C13 witness: the largest one-limb value plus 1 has carried into a second
\* limb, and subtracting 1 has borrowed back to one limb
C13_Witness ==
  /\ ar.law = "cancel" /\ ar.pc = 2 /\ ar.a = LimbMod - 1 /\ ar.b = 1
  /\ ar.t.d = <<0, 1>> /\ ar.u.d = <<LimbMod - 1>> /\ ar.u.size = 1

\* C14: for every base b, every exponent e >= 0 and every non-zero modulus
\* m, mpz_powm completes and leaves b^e mod m, the value mpz_pow_ui followed
\* by mpz_mod leaves (0^0 being 1); 4^13 mod 497 is 445.
C14_PowMod ==
  /\ (ar.law = "powm" /\ ar.pc >= 1 /\ ar.b >= 0 /\ ar.c # 0) =>
       /\ ar.st = "ok" /\ Valid(ar.w)
       /\ 0 <= Val(ar.w) /\ Val(ar.w) < Abs(ar.c)
       /\ (Pow(ar.a, ar.b) - Val(ar.w)) % Abs(ar.c) = 0
  /\ (ar.law = "powm" /\ ar.pc = 3) => Val(ar.w) = Val(ar.u)
  /\ (ar.law = "powm" /\ ar.pc >= 2 /\ ar.a = 0 /\ ar.b = 0) => Val(ar.t) = 1

\* C14 witness: mpz_powm of 4, 13, 497 has left 445, as 4^13 mod 497
C14_Witness ==
  /\ ar.law = "powm" /\ ar.pc = 3 /\ ar.a = 4 /\ ar.b = 13 /\ ar.c = 497
  /\ ar.st = "ok" /\ Val(ar.w) = 445 /\ Val(ar.u) = 445

\* the greatest common divisor, by Euclid's algorithm
RECURSIVE Gcd(_, _)
Gcd(a, b) == IF b = 0 THEN Abs(a) ELSE Gcd(b, Abs(a) % Abs(b))

\* square, 145 is not.
C16_SquareRoot ==
  (ar.law = "sqrt" /\ ar.a >= 0) =>
    /\ ar.pc >= 1 =>
         /\ ar.st = "ok" /\ Valid(ar.t) /\ Valid(ar.u)
         /\ Val(ar.t) >= 0
         /\ ar.a = Val(ar.t) * Val(ar.t) + Val(ar.u)
         /\ 0 <= Val(ar.u) /\ Val(ar.u) <= 2 * Val(ar.t)
    /\ ar.pc = 2 =>
         /\ Val(ar.u) = 0 <=> ar.ret # 0
         /\ ar.a = 144 => Val(ar.t) = 12 /\ ar.ret # 0
         /\ ar.a = 145 => ar.ret = 0

\* C16 witness: mpz_sqrtrem of 145 has left 12 and 1, and 145 is no perfect
\* square
C16_Witness ==
  /\ ar.law = "sqrt" /\ ar.pc = 2 /\ ar.a = 145
  /\ Val(ar.t) = 12 /\ Val(ar.u) = 1 /\ ar.ret = 0

\* C17: for every v >= 0 and n >= 1 mpz_nthroot and mpz_root leave the
\* truncated root r, r^n <= v < (r+1)^n, and give the caller a flag that is
\* non-zero iff v = r^n; mpz_rootrem leaves the same root and the remainder
\* v - r^n, which is zero iff the flag is non-zero.
C17_NthRoot ==
  (ar.law \in {"root", "nthroot"} /\ ar.a >= 0 /\ ar.b >= 1) =>
    /\ ar.pc >= 1 =>
         /\ ar.st = "ok" /\ Valid(ar.t) /\ Val(ar.t) >= 0
         /\ Pow(Val(ar.t), ar.b) <= ar.a /\ ar.a < Pow(Val(ar.t) + 1, ar.b)
         /\ ar.ret # 0 <=> ar.a = Pow(Val(ar.t), ar.b)
    /\ (ar.law = "root" /\ ar.pc = 2) =>
         /\ Valid(ar.u) /\ Valid(ar.w) /\ Val(ar.u) = Val(ar.t)
         /\ Val(ar.w) = ar.a - Pow(Val(ar.u), ar.b)
         /\ Val(ar.w) = 0 <=> ar.ret # 0

\* bit i of the infinite twos complement representation of the integer v
Bit(v, i) == (v \div Pow(2, i)) % 2

\* bit positions reaching past the end of every operand and result
BitPositions == 0 .. (WordBits + 2)

Result == V(last.rop)

\* C18: for operands of any sign, mpz_com leaves -a - 1, and bit i of the
\* result of mpz_and, mpz_ior, mpz_xor is the and, or, exclusive or of bit i
\* of a and bit i of b, the sign of the result being the same combination of
\* the signs of a and b.
C18_Bitwise ==
  LET a == last.nv
      b == last.dv
  IN /\ last.op \in {"mpz_and", "mpz_ior", "mpz_xor", "mpz_com"} =>
          last.status = "ok" /\ Valid(regs[last.rop])
     /\ last.op = "mpz_com" =>
          /\ Result = -a - 1
          /\ \A i \in BitPositions : Bit(Result, i) = 1 - Bit(a, i)
     /\ last.op = "mpz_and" =>
          /\ \A i \in BitPositions : Bit(Result, i) = Bit(a, i) * Bit(b, i)
          /\ Result < 0 <=> (a < 0 /\ b < 0)
     /\ last.op = "mpz_ior" =>
          /\ \A i \in BitPositions : Bit(Result, i) = Max(Bit(a, i), Bit(b, i))
          /\ Result < 0 <=> (a < 0 \/ b < 0)
     /\ last.op = "mpz_xor" =>
          /\ \A i \in BitPositions : Bit(Result, i) = (Bit(a, i) + Bit(b, i)) % 2
          /\ Result < 0 <=> ((a < 0) # (b < 0))

\* C18 witness: mpz_and of -6 and 5 has left 0, mixing the signs
C18_Witness ==
  /\ last.op = "mpz_and" /\ last.status = "ok"
  /\ last.nv = -6 /\ last.dv = 5 /\ Result = 0

\* C19: mpz_popcount is the number of 1 bits of v >= 0 and the largest
\* mp_bitcnt_t for v < 0; mpz_hamdist is the number of bit positions where
\* the twos complement representations differ when both operands are >= 0
\* or both < 0, and the largest mp_bitcnt_t when exactly one is negative.
C19_PopcountHamdist ==
  LET a == last.nv
      b == last.dv
  IN /\ last.op = "mpz_popcount" =>
          /\ last.status = "ok"
          /\ last.ret = IF a >= 0 THEN Cardinality({i \in BitPositions : Bit(a, i) = 1})
                        ELSE WordMod - 1
     /\ last.op = "mpz_hamdist" =>
          /\ last.status = "ok"
          /\ last.ret = IF (a < 0) = (b < 0)
                        THEN Cardinality({i \in BitPositions : Bit(a, i) # Bit(b, i)})
                        ELSE WordMod - 1

\* C19 witness: mpz_hamdist of -1 and -6 is 2, of two negative operands
C19_Witness ==
  /\ last.op = "mpz_hamdist" /\ last.status = "ok"
  /\ last.nv = -1 /\ last.dv = -6 /\ last.ret = 2

\* the positions at or after s where v has the bit sought
Found(v, s, bit) == {i \in BitPositions : i >= s /\ Bit(v, i) = bit}

\* C20: mpz_scan1 (mpz_scan0) returns the least i >= s where the twos
\* complement bit of v is 1 (0), s itself when bit s is already that; the
\* largest mp_bitcnt_t is returned exactly when there is no such bit, which
\* is mpz_scan1 past the end of a non-negative v and mpz_scan0 past the end
\* of a negative v; the index returned is never below s.
C20_Scan ==
  LET v == last.nv
      s == last.cv
      bit == IF last.op = "mpz_scan1" THEN 1 ELSE 0
  IN last.op \in {"mpz_scan0", "mpz_scan1"} =>
       /\ last.status = "ok" /\ last.ret >= s
       /\ Found(v, s, bit) # {} =>
            /\ last.ret \in Found(v, s, bit)
            /\ \A i \in Found(v, s, bit) : last.ret <= i
       /\ Found(v, s, bit) = {} => last.ret = WordMod - 1
       /\ Bit(v, s) = bit => last.ret = s
       /\ last.ret = WordMod - 1 <=>
            IF bit = 1 THEN v >= 0 /\ Pow(2, s) > v
            ELSE v < 0 /\ Pow(2, s) >= -v

\* C20 witness: mpz_scan0 of -3 from bit 2 finds no 0 bit
C20_Witness ==
  /\ last.op = "mpz_scan0" /\ last.status = "ok"
  /\ last.nv = -3 /\ last.cv = 2 /\ last.ret = WordMod - 1

\* C21: for every v of any sign and every index i, after mpz_setbit bit i
\* of v is 1, as mpz_tstbit reads it, after mpz_clrbit it is 0 and mpz_combit
\* inverts it; every other bit j # i of the twos complement view is left as
\* it was, the magnitude growing when needed: mpz_setbit of bit 5 of zero
\* leaves 32, whose bit 4 is 0.
C21_SingleBit ==
  LET v == last.nv
      i == last.cv
  IN last.op \in {"mpz_setbit", "mpz_clrbit", "mpz_combit"} =>
       /\ last.status = "ok" /\ Valid(regs[last.rop])
       /\ last.op = "mpz_setbit" => Bit(Result, i) = 1 /\ TwosBit(Result, i) = 1
       /\ last.op = "mpz_clrbit" => Bit(Result, i) = 0 /\ TwosBit(Result, i) = 0
       /\ last.op = "mpz_combit" =>
            Bit(Result, i) = 1 - Bit(v, i) /\ TwosBit(Result, i) = 1 - TwosBit(v, i)
       /\ \A j \in BitPositions \ {i} :
            Bit(Result, j) = Bit(v, j) /\ TwosBit(Result, j) = TwosBit(v, j)
       /\ (last.op = "mpz_setbit" /\ v = 0 /\ i = 5) =>
            Result = 32 /\ TwosBit(Result, 4) = 0

\* C21 witness: mpz_setbit of bit 5 of zero has left 32
C21_Witness ==
  /\ last.op = "mpz_setbit" /\ last.status = "ok"
  /\ last.nv = 0 /\ last.cv = 5 /\ Result = 32

\* the values a signed long holds
FitsSigned(v) == -(WordMod \div 2) <= v /\ v <= (WordMod \div 2) - 1

\* C22: for every value v, mpz_get_ui gives |v| mod 2^w, the sign ignored,
\* whether or not v fits; mpz_get_si gives v whenever v fits a signed long,
\* negative values included, and otherwise the low-order bits of |v| with
\* the sign of v; the fits predicates tell whether v is in the range.
C22_MachineWords ==
  (ar.pc = 1) =>
    /\ ar.law = "get_ui" => ar.ret = Abs(ar.a) % WordMod
    /\ ar.law = "get_si" =>
         ar.ret = IF FitsSigned(ar.a) THEN ar.a
                  ELSE Sgn(ar.a) * (Abs(ar.a) % (WordMod \div 2))
    /\ ar.law = "fits_slong" => (ar.ret # 0 <=> FitsSigned(ar.a))
    /\ ar.law = "fits_ulong" => (ar.ret # 0 <=> (0 <= ar.a /\ ar.a < WordMod))

\* a canonical value: valid, and zero only as the empty magnitude with size 0
Canonical(z) ==
  /\ Valid(z)
  /\ z.size = 0 <=> Magnitude(z.d) = 0
  /\ Magnitude(z.d) = 0 => z.d = <<>>

\* C23: after any call (initialisation, assignment, parsing, arithmetic,
\* division, roots, bit operations, negation, absolute value, swap, change
\* of space) on canonical values every initialised variable is canonical: no
\* most significant zero limb, no more limbs in use than allocated, and zero
\* held as the empty magnitude with size 0, never a negative zero, also
\* after mpz_neg and mpz_abs of zero, a - a and a failed mpz_set_str.
C23_Canonical ==
  /\ \A r \in Regs : Live(r) => Canonical(regs[r])
  /\ (last.op \in {"mpz_neg", "mpz_abs"} /\ last.nv = 0) => regs[last.rop].size = 0
  /\ (last.op = "mpz_sub" /\ last.nv = last.dv) => regs[last.rop].size = 0

\* C23 witness: mpz_sub of 7, a value of two limbs, from itself has left the
\* empty magnitude
C23_Witness ==
  /\ last.op = "mpz_sub" /\ last.nv = 7 /\ last.dv = 7
  /\ regs[last.rop].size = 0 /\ regs[last.rop].d = <<>>

\* the variables initialised before and after a step
Kept == {r \in Regs : regs[r].live /\ regs'[r].live}

\* C24 as claimed: the space of a value is changed only by mpz_realloc2
\* and never shrinks otherwise; mpz_realloc2 to n bits leaves the value
\* unchanged when it fits in n bits and sets it to zero when it does not.
C24_CapacityOnlyByResize ==
  [][\A r \in Kept :
       /\ regs'[r].alloc # regs[r].alloc =>
            last'.op = "mpz_realloc2" /\ last'.rop = r
       /\ (last'.op = "mpz_realloc2" /\ last'.rop = r) =>
            Val(regs'[r]) = IF Abs(V(r)) < Pow(2, last'.cv) THEN V(r) ELSE 0]_vars

\* the variable whose contents mpz_swap has moved to r
SwappedWith(l, r) == IF r = l.rop THEN l.rrem ELSE l.rop

\* C24: the space of a value never shrinks in a call other than
\* mpz_realloc2: a call leaves every variable at least the space it had,
\* mpz_swap moves the space of each of its two values with the value, and
\* mpz_realloc2 to n bits leaves the value unchanged when it fits in n bits.
C24_CapacityNeverShrinks ==
  [][\A r \in Kept :
       IF last'.op = "mpz_realloc2" /\ last'.rop = r
       THEN Abs(V(r)) < Pow(2, last'.cv) => Val(regs'[r]) = V(r)
       ELSE IF last'.op = "mpz_swap" /\ r \in {last'.rop, last'.rrem}
       THEN regs'[r] = regs[SwappedWith(last', r)]
       ELSE regs'[r].alloc >= regs[r].alloc]_vars

\* every initialised variable with space points to a limb block of its own
Exclusive ==
  \A o \in Objs :
    /\ own.z[o].live => (own.p[o] # 0 <=> own.z[o].alloc > 0)
    /\ \A q \in Objs \ {o} :
         (own.z[o].live /\ own.z[q].live /\ own.p[o] # 0) => own.p[o] # own.p[q]

\* C25: in every state reached by mpz_init, mpz_init_set, mpz_set_si,
\* mpz_set, mpz_add, mpz_swap and mpz_clear no two initialised variables
\* point to the same limb block; mpz_swap leaves each of its two variables
\* with the other's former value and limb block, no limb copied, every third
\* variable as it was, and a variable swapped with itself as it was.
C25_ExclusiveOwnership ==
  /\ []Exclusive
  /\ [][own'.op = "mpz_swap" =>
          /\ own'.z[own'.x] = own.z[own'.y] /\ own'.p[own'.x] = own.p[own'.y]
          /\ own'.z[own'.y] = own.z[own'.x] /\ own'.p[own'.y] = own.p[own'.x]
          /\ \A o \in Objs \ {own'.x, own'.y} :
               own'.z[o] = own.z[o] /\ own'.p[o] = own.p[o]
          /\ own'.x = own'.y => (own'.z = own.z /\ own'.p = own.p)]_vars

\* C25 witness: mpz_swap has exchanged the values 3 and -6 of a and b and
\* their limb blocks, while c holds a copy of 3 in a block of its own
C25_Witness ==
  /\ own.op = "mpz_swap" /\ own.x = "a" /\ own.y = "b"
  /\ Val(own.z["a"]) = -6 /\ Val(own.z["b"]) = 3 /\ Val(own.z["c"]) = 3
  /\ own.p["a"] # own.p["b"] /\ own.p["c"] # own.p["b"] /\ own.p["c"] # 0

\* C26: a routine whose destination is also an operand computes from the
\* value the destination had when it was called: mpz_addmul leaves
\* rop = old rop + op1 * op2 and mpz_submul rop = old rop - op1 * op2, also
\* when rop is op1, op2 or both, and mpz_add, mpz_sub, mpz_mul, with a
\* machine word for an operand too, and mpz_mul_2exp leave op1 + op2,
\* op1 - op2, op1 * op2, op1 * 2^op2 whichever variable is the destination;
\* no other variable is changed.
C26_ReadBeforeWrite ==
  [][LET l == last'
         old == IF l.rop \in Regs THEN V(l.rop) ELSE 0
         new == IF l.rop \in Regs THEN Val(regs'[l.rop]) ELSE 0
     IN l.op \in {"mpz_addmul", "mpz_addmul_ui", "mpz_submul", "mpz_submul_ui",
                  "mpz_add", "mpz_sub", "mpz_mul", "mpz_add_ui", "mpz_sub_ui",
                  "mpz_ui_sub", "mpz_mul_si", "mpz_mul_ui", "mpz_mul_2exp"} =>
          /\ l.status = "ok" /\ Valid(regs'[l.rop])
          /\ l.op \in {"mpz_addmul", "mpz_addmul_ui"} =>
               l.cv = old /\ new = old + l.nv * l.dv
          /\ l.op \in {"mpz_submul", "mpz_submul_ui"} =>
               l.cv = old /\ new = old - l.nv * l.dv
          /\ l.op \in {"mpz_add", "mpz_add_ui"} => new = l.nv + l.dv
          /\ l.op \in {"mpz_sub", "mpz_sub_ui", "mpz_ui_sub"} => new = l.nv - l.dv
          /\ l.op \in {"mpz_mul", "mpz_mul_si", "mpz_mul_ui"} => new = l.nv * l.dv
          /\ l.op = "mpz_mul_2exp" => new = l.nv * Pow(2, l.dv)
          /\ \A r \in Regs \ {l.rop} : regs'[r] = regs[r]]_vars

\* C26 witness: mpz_addmul with the only initialised variable, holding -3,
\* as destination and as both factors has left -3 + (-3)(-3) = 6
C26_Witness ==
  /\ last.op = "mpz_addmul" /\ last.rop = "x" /\ ~Live("y")
  /\ last.cv = -3 /\ last.nv = -3 /\ last.dv = -3 /\ V("x") = 6

\* the routines that only return a result
QueryOps ==
  {"mpz_cmp", "mpz_cmp_d", "mpz_cmp_si", "mpz_cmp_ui",
   "mpz_cmpabs", "mpz_cmpabs_d", "mpz_cmpabs_ui", "mpz_sgn",
   "mpz_tstbit", "mpz_popcount", "mpz_hamdist", "mpz_scan0", "mpz_scan1",
   "mpz_divisible_p", "mpz_congruent_p",
   "mpz_fits_ulong_p", "mpz_fits_slong_p", "mpz_fits_uint_p", "mpz_fits_sint_p",
   "mpz_fits_ushort_p", "mpz_fits_sshort_p",
   "mpz_sizeinbase", "mpz_get_ui", "mpz_get_si",
   "mpz_cdiv_ui", "mpz_fdiv_ui", "mpz_tdiv_ui"}

\* C27: every routine that only returns a result (comparison, sign, bit
\* test, population count, Hamming distance, scans, divisibility and
\* congruence, the fits predicates, size in a base, conversion to a machine
\* word, the div_ui routines) leaves the value, sign, limbs and space of
\* every variable as they were, also where its operand is declared mpz_ptr.
C27_QueriesChangeNothing ==
  [][last'.op \in QueryOps =>
       /\ last'.rop = "none" /\ last'.rrem = "none"
       /\ \A r \in Regs :
            /\ regs'[r].live = regs[r].live /\ regs'[r].alloc = regs[r].alloc
            /\ regs'[r].size = regs[r].size /\ regs'[r].d = regs[r].d]_vars

\* C27 witness: mpz_cdiv_ui, whose operand is declared mpz_ptr, has returned
\* 1 for -7 by 2 and the operand still holds -7
C27_Witness ==
  /\ last.op = "mpz_cdiv_ui" /\ last.status = "ok"
  /\ last.nv = -7 /\ last.dv = 2 /\ last.ret = 1
  /\ \E r \in Regs : Live(r) /\ V(r) = -7

====
